---- MODULE Spec2Model ----
(***************************************************************************)
(* Session orchestration core of TeleCoder / OpenTL.                        *)
(*                                                                         *)
(*   Store   sessions, messages and session_events tables                  *)
(*           (internal/session/store.go)                                   *)
(*   Bus     per-session fan-out over buffered channels (eventbus)         *)
(*   Engine  chat-session workflow: init worker, SendChatMessage,          *)
(*           chat-message workers, idle reaper, CreatePRFromChat, and the  *)
(*           HTTP stop handler (engine, internal/server/server.go)         *)
(*           task-session workflow: runSession, the single-task path with  *)
(*           its revision rounds, the multi-step path, finalizeSession     *)
(*   Pipeline and dispatcher  DecomposeStage, ChainEvaluator               *)
(*                                                                         *)
(* Every call on the Store, the Bus or the Runtime is one step, so that    *)
(* goroutines interleave between calls exactly as the Go scheduler lets    *)
(* them.                                                                   *)
(***************************************************************************)
EXTENDS Integers, Sequences, FiniteSets, TLC

VARIABLES
    sessions,   \* sessions table: id -> row, or NoSession
    messages,   \* messages table, in insertion order
    events,     \* session_events table, in insertion order
    subs,       \* Bus registry: session id -> sequence of channel ids
    chans,      \* every channel ever made: id -> [buf, closed, closes]
    pubCount,   \* Bus harness: number of Publish calls per session (the events' payload)
    singles,    \* Bus harness: single Publish calls made
    bursts,     \* Bus harness: bursts made
    receives,   \* Bus harness: single receives made
    lastQuery,  \* Store harness: the last GetEvents call and its result
    failCalls,  \* failSession harness: the messages passed so far, per session
    threads,    \* Engine: every goroutine and API call started so far, in start order
    containers, \* Runtime: the containers that are running
    agentRuns,  \* Runtime: container -> agent processes executing in it
    prs,        \* GitProvider: the pull requests created, prs[n] is the branch of PR n
    calls,      \* Engine: API calls and reaper ticks made so far
    pushed,     \* git remote: the branches that have been pushed
    starts,     \* Runtime: Start calls that returned a container
    decomposed, \* Decompose harness: the last call and what it returned
    evaluated,  \* ChainEvaluator harness: the last call and what it returned
    summaries,  \* memory.Store: the summaries added, in the order of the Add calls
    recalled    \* memory harness: the last Query call and what it returned

storeVars    == <<sessions, messages, events>>
busVars      == <<subs, chans>>
storeHarness == <<lastQuery>>
busHarness   == <<pubCount, singles, bursts, receives>>
failHarness  == <<failCalls>>
engineVars   == <<threads, containers, agentRuns, prs, calls>>
pureHarness  == <<decomposed, evaluated, summaries, recalled>>
taskVars     == <<pushed, starts>>
harnessVars  == <<storeHarness, busHarness, failHarness, pureHarness>>
vars == <<storeVars, busVars, storeHarness, busHarness, failHarness, pureHarness,
          engineVars, taskVars>>

----------------------------------------------------------------------------
(* Bounds and identities *)

\* session ids (uuid prefixes in the code)
Sessions == {"s1", "s2"}

\* rows the Store harness appends to session_events
MaxEvents == 4

\* GetSession on an id without a row (sql.ErrNoRows)
NoSession == [id |-> "", mode |-> "none", status |-> "", branch |-> "", pr_url |-> "",
              pr_number |-> 0, container_id |-> "", error |-> "", created_at |-> 0,
              updated_at |-> 0,
              result |-> [type |-> "", content |-> "", pr_url |-> "", pr_number |-> 0]]

\* model.Result of a session that has produced nothing yet
NoResult == NoSession.result

ResultPR   == "pr"
ResultText == "text"

\* the containers Runtime.Start hands out, in order
ContainerIDs == <<"c1", "c2", "c3", "c4">>

Range(seq) == {seq[i] : i \in 1..Len(seq)}

\* The Decompose harness before its first call.  An answer of llm.Complete to
\* the stage is an error, text that is no JSON array, or a JSON array of
\* sub-tasks (possibly empty).
NoAnswer == [err |-> FALSE, json |-> FALSE, tasks |-> <<>>]

NoDecompose == [calls |-> 0, config |-> 0, answer |-> NoAnswer,
                stage |-> [err |-> FALSE, hint |-> FALSE, subTasks |-> <<>>],
                used |-> <<>>]

\* the ChainEvaluator harness before its first call
NoDecision == [action |-> "", repo |-> ""]

NoEvaluate == [calls |-> 0, maxDepth |-> 0, depth |-> 0,
               answer |-> [err |-> FALSE, json |-> FALSE, action |-> "", repo |-> ""],
               out |-> [decision |-> NoDecision, err |-> "", dispatched |-> FALSE]]

\* the memory harness before its first Query
NoRecall == [repo |-> "", topK |-> 0, err |-> FALSE, matches |-> <<>>]

StatusPending  == "pending"
StatusRunning  == "running"
StatusComplete == "complete"
StatusError    == "error"
StatusIdle     == "idle"

ModeTask == "task"
ModeChat == "chat"

Terminal == {StatusComplete, StatusError}

----------------------------------------------------------------------------
(* Store *)

RECURSIVE MaxOf(_)
MaxOf(S) == IF S = {} THEN 0
            ELSE LET x == CHOOSE y \in S : TRUE
                     m == MaxOf(S \ {x})
                 IN IF x > m THEN x ELSE m

\* INTEGER PRIMARY KEY AUTOINCREMENT: one counter for the whole table, the
\* next id is one more than the largest id ever handed out (rows are never
\* deleted).
NextEventID == MaxOf({events[i].id : i \in 1..Len(events)}) + 1

\* A faulty AddEvent that numbers events per session.
AddEventPerSession(sessionID, type, data) ==
    Append(events, [id |-> Cardinality({i \in 1..Len(events) :
                                          events[i].session_id = sessionID}) + 1,
                    session_id |-> sessionID, type |-> type, data |-> data])

\* Store.AddEvent: the table after the INSERT.  The new row's id is
\* NextEventID (LastInsertId).
AddEvent(sessionID, type, data) ==
    Append(events, [id |-> NextEventID, session_id |-> sessionID,
                    type |-> type, data |-> data])

\* ORDER BY id ASC over a set of rows.
RECURSIVE OrderByID(_)
OrderByID(rows) ==
    IF rows = {} THEN <<>>
    ELSE LET lo == CHOOSE r \in rows : \A q \in rows : r.id <= q.id
         IN <<lo>> \o OrderByID(rows \ {lo})

\* A faulty GetEvents whose WHERE clause lost the session filter.
GetEventsAnySession(table, sessionID, afterID) ==
    OrderByID({table[i] : i \in {j \in 1..Len(table) : table[j].id > afterID}})

\* Store.GetEvents: WHERE session_id = ? AND id > ? ORDER BY id ASC
GetEvents(table, sessionID, afterID) ==
    OrderByID({table[i] : i \in {j \in 1..Len(table) :
                  table[j].session_id = sessionID /\ table[j].id > afterID}})

----------------------------------------------------------------------------
(* Store harness: appends to several sessions interleave, and GetEvents is  *)
(* called at any point (SSE replay and resume).                             *)

EventTypes == {"status", "output"}

NoQuery == [session_id |-> "", after |-> 0, table |-> <<>>, result |-> <<>>]

\* The state after construction: empty tables, an empty registry.
Init ==
    /\ sessions = [s \in Sessions |-> NoSession]
    /\ messages = <<>>
    /\ events = <<>>
    /\ subs = [s \in Sessions |-> <<>>]
    /\ chans = <<>>
    /\ pubCount = [s \in Sessions |-> 0]
    /\ singles = 0
    /\ bursts = 0
    /\ receives = 0
    /\ lastQuery = NoQuery
    /\ failCalls = [s \in Sessions |-> <<>>]
    /\ threads = <<>>
    /\ containers = {}
    /\ agentRuns = [c \in Sessions \cup Range(ContainerIDs) |-> 0]
    /\ prs = <<>>
    /\ calls = 0
    /\ pushed = {}
    /\ starts = 0
    /\ decomposed = NoDecompose
    /\ evaluated = NoEvaluate
    /\ summaries = <<>>
    /\ recalled = NoRecall

StoreAddEvent(s, type) ==
    /\ Len(events) < MaxEvents
    /\ events' = AddEvent(s, type, "x")
    /\ UNCHANGED <<sessions, messages, busVars, storeHarness, busHarness, failHarness, pureHarness, engineVars, taskVars>>

StoreGetEvents(s, after) ==
    /\ lastQuery' = [session_id |-> s, after |-> after, table |-> events,
                     result |-> GetEvents(events, s, after)]
    /\ UNCHANGED <<storeVars, busVars, busHarness, failHarness, pureHarness, engineVars, taskVars>>

StoreNext ==
    \/ \E s \in Sessions, type \in EventTypes : StoreAddEvent(s, type)
    \/ \E s \in Sessions, after \in 0..MaxEvents : StoreGetEvents(s, after)

SpecStore == Init /\ [][StoreNext]_vars

----------------------------------------------------------------------------
(* Bus *)

\* capacity of a subscriber channel: make(chan *model.Event, 64)
BufferCap == 64

\* channels the Subscribe calls of a run may create
MaxChans == 2

\* single Publish calls of the Bus harness
MaxPublishes == 3

\* bursts of BufferCap back-to-back Publish calls of the Bus harness
MaxBursts == 1

\* single receives of the Bus harness (a drain of a whole buffer is not counted)
MaxReceives == 3

\* append(subs[:i], subs[i+1:]...)
RemoveAt(seq, i) == SubSeq(seq, 1, i - 1) \o SubSeq(seq, i + 1, Len(seq))

\* InMemoryBus.Subscribe: a new channel, registered last for the session.
\* The channel's id is its index in chans; closes counts the close(ch) calls
\* made on it (a second one panics).
Subscribe(s) ==
    /\ chans' = Append(chans, [buf |-> <<>>, closed |-> FALSE, closes |-> 0])
    /\ subs' = [subs EXCEPT ![s] = Append(@, Len(chans) + 1)]

\* A faulty Unsubscribe that closes the channel it is given whether or not
\* it finds it in the registry.
UnsubscribeClosesAnyway(s, ch) ==
    /\ chans' = [chans EXCEPT ![ch].closed = TRUE, ![ch].closes = @ + 1]
    /\ IF ch \in Range(subs[s])
       THEN LET i == CHOOSE k \in 1..Len(subs[s]) : subs[s][k] = ch
            IN subs' = [subs EXCEPT ![s] = RemoveAt(@, i)]
       ELSE UNCHANGED subs

\* A faulty Unsubscribe that closes the channel and leaves it registered.
UnsubscribeKeepsEntry(s, ch) ==
    IF ch \in Range(subs[s])
    THEN /\ chans' = [chans EXCEPT ![ch].closed = TRUE, ![ch].closes = @ + 1]
         /\ UNCHANGED subs
    ELSE UNCHANGED <<subs, chans>>

\* InMemoryBus.Unsubscribe: the first registry entry equal to ch is removed
\* and the channel closed; a channel that is not registered is left alone.
Unsubscribe(s, ch) ==
    IF ch \in Range(subs[s])
    THEN LET i == CHOOSE k \in 1..Len(subs[s]) :
                      subs[s][k] = ch /\ \A m \in 1..(k-1) : subs[s][m] # ch
         IN /\ subs' = [subs EXCEPT ![s] = RemoveAt(@, i)]
            /\ chans' = [chans EXCEPT ![ch].closed = TRUE, ![ch].closes = @ + 1]
    ELSE UNCHANGED <<subs, chans>>

\* A faulty Publish whose send has no default case: it waits for room.
PublishBlocking(s, ev) ==
    /\ \A c \in Range(subs[s]) : Len(chans[c].buf) < BufferCap
    /\ chans' = [c \in DOMAIN chans |->
                    IF c \in Range(subs[s])
                    THEN [chans[c] EXCEPT !.buf = Append(@, ev)]
                    ELSE chans[c]]

\* InMemoryBus.Publish: for every channel registered for the session,
\* select { case ch <- event: default: }: the event is queued when the
\* buffer has room and dropped otherwise.  Delivered is the channels after
\* the call.
Delivered(cs, s, ev) ==
    [c \in DOMAIN cs |->
        IF c \in Range(subs[s]) /\ Len(cs[c].buf) < BufferCap
        THEN [cs[c] EXCEPT !.buf = Append(@, ev)]
        ELSE cs[c]]

Publish(s, ev) == chans' = Delivered(chans, s, ev)

\* A subscriber's receive, event := <-ch, on a channel that holds an event.
Receive(ch) ==
    /\ chans[ch].buf # <<>>
    /\ chans' = [chans EXCEPT ![ch].buf = Tail(@)]

----------------------------------------------------------------------------
(* Bus harness: subscribers come and go, publishers publish numbered events *)
(* and subscribers read at their own pace (TestDoesNotBlockOnSlowSubscriber)*)

BusEvent(s, n) == [id |-> 0, session_id |-> s, type |-> "output", data |-> n]

\* The channels after k back-to-back Publish calls, numbered from first, on
\* session s: each registered channel takes the calls' events in order until
\* its buffer is full, and the rest are dropped for it.
PublishMany(cs, s, first, k) ==
    [c \in DOMAIN cs |->
        IF c \in Range(subs[s])
        THEN LET room == BufferCap - Len(cs[c].buf)
                 n    == IF k < room THEN k ELSE room
             IN [cs[c] EXCEPT !.buf = @ \o [i \in 1..n |-> BusEvent(s, first + i - 1)]]
        ELSE cs[c]]

BusSubscribe(s) ==
    /\ Len(chans) < MaxChans
    /\ Subscribe(s)
    /\ UNCHANGED <<storeVars, storeHarness, busHarness, failHarness, pureHarness, engineVars, taskVars>>

\* Unsubscribe of any channel ever made: also of one that is not registered
\* for the session any more (a repeated Unsubscribe), which changes nothing
BusUnsubscribe(s, ch) ==
    /\ Unsubscribe(s, ch)
    /\ UNCHANGED <<storeVars, storeHarness, busHarness, failHarness, pureHarness, engineVars, taskVars>>

BusPublish(s) ==
    /\ singles < MaxPublishes
    /\ singles' = singles + 1
    /\ pubCount' = [pubCount EXCEPT ![s] = @ + 1]
    /\ Publish(s, BusEvent(s, pubCount[s] + 1))
    /\ UNCHANGED <<storeVars, subs, bursts, receives, storeHarness, failHarness, pureHarness, engineVars, taskVars>>

\* for i := 0; i < 64; i++ { bus.Publish(...) } with no reader in between
BusPublishBurst(s) ==
    /\ bursts < MaxBursts
    /\ bursts' = bursts + 1
    /\ pubCount' = [pubCount EXCEPT ![s] = @ + BufferCap]
    /\ chans' = PublishMany(chans, s, pubCount[s] + 1, BufferCap)
    /\ UNCHANGED <<storeVars, subs, singles, receives, storeHarness, failHarness, pureHarness, engineVars, taskVars>>

\* the SSE loop reads one event
BusReceive(ch) ==
    /\ receives < MaxReceives
    /\ receives' = receives + 1
    /\ Receive(ch)
    /\ UNCHANGED <<storeVars, subs, pubCount, singles, bursts, storeHarness, failHarness, pureHarness, engineVars, taskVars>>

\* the SSE loop reads everything that is buffered before the next Publish
BusDrain(ch) ==
    /\ chans[ch].buf # <<>>
    /\ chans' = [chans EXCEPT ![ch].buf = <<>>]
    /\ UNCHANGED <<storeVars, subs, busHarness, storeHarness, failHarness, pureHarness, engineVars, taskVars>>

BusNext ==
    \/ \E s \in Sessions : BusSubscribe(s)
    \/ \E s \in Sessions, ch \in DOMAIN chans : BusUnsubscribe(s, ch)
    \/ \E s \in Sessions : BusPublish(s)
    \/ \E s \in Sessions : BusPublishBurst(s)
    \/ \E ch \in DOMAIN chans : BusReceive(ch)
    \/ \E ch \in DOMAIN chans : BusDrain(ch)

SpecBus == Init /\ [][BusNext]_vars

----------------------------------------------------------------------------
(* Store: sessions and messages *)

\* Store.CreateSession: the INSERT, with the schema's defaults for the columns
\* it does not name.  created_at orders the rows by creation; updated_at
\* counts the writes of the row (time.Now() at each write).  The branch
\* telecoder/<id> is written as the id.
NewSession(id, mode) ==
    [id |-> id, mode |-> mode, status |-> StatusPending, branch |-> id,
     pr_url |-> "", pr_number |-> 0, container_id |-> "", error |-> "",
     created_at |-> Cardinality({x \in Sessions : sessions[x] # NoSession}),
     updated_at |-> 0, result |-> NoResult]

\* Store.GetSession
GetSession(id) == sessions[id]

\* The result columns UpdateSession writes: the caller's Result, whole.
SaveResult(sess) == sess.result

\* Store.UpdateSession: UPDATE sessions SET status, branch, pr_url, pr_number,
\* container_id, error, updated_at WHERE id = ?, every column taken from the
\* caller's copy of the row.
UpdateSession(sess) ==
    [sessions EXCEPT ![sess.id] =
        [@ EXCEPT !.status = sess.status, !.branch = sess.branch,
                  !.pr_url = sess.pr_url, !.pr_number = sess.pr_number,
                  !.container_id = sess.container_id, !.error = sess.error,
                  !.updated_at = @ + 1, !.result = SaveResult(sess)]]

\* Store.ListSessions (the rows that exist)
ListSessions == {sessions[s] : s \in {x \in Sessions : sessions[x] # NoSession}}

\* Store.AddMessage
AddMessage(sessionID, role, content) ==
    Append(messages, [id |-> MaxOf({messages[i].id : i \in 1..Len(messages)}) + 1,
                      session_id |-> sessionID, role |-> role, content |-> content])

\* Store.GetMessages: WHERE session_id = ? ORDER BY id ASC
GetMessages(sessionID) ==
    OrderByID({messages[i] : i \in {j \in 1..Len(messages) :
                  messages[j].session_id = sessionID}})

\* the loop counting m.Role == "user"
UserMsgCount(msgs) == Cardinality({i \in 1..Len(msgs) : msgs[i].role = "user"})

----------------------------------------------------------------------------
(* Engine: goroutines and API calls *)

\* API calls (CreateChatSession, SendChatMessage, CreatePRFromChat, stop,
\* subscribe) and reaper ticks of a run
MaxCalls == 3

\* lines a setup script or an agent run writes
MaxLines == 1

\* Config.ChatMaxMessages
ChatMaxMessages == 1

\* the chat sessions a run creates
ChatSessions == {"s1"}

\* message contents a user sends
Contents == {"add /health"}

NoEvent == [id |-> 0, session_id |-> "", type |-> "", data |-> ""]

\* sandboxRoundResult: the container of a round, its exit code, the result
\* type its markers gave, the plain lines it wrote, its last line; cid "" is
\* the nil result
NoRound == [cid |-> "", exit |-> 0, rtype |-> "", out |-> 0, lastLine |-> ""]

\* The locals of a task worker: the sub-tasks (n of them, i the current
\* one), whether a plan was made, the revision round, lastResult (last) and
\* the round being run (cur), the rest of the log being read (stream), and
\* of the multi-step path the step statuses, anyCodeChanged and the part of
\* the step that called runVerify or runAgentInContainer (phase).
NoLocals == [n |-> 0, i |-> 0, plan |-> FALSE, round |-> 0, last |-> NoRound,
             cur |-> NoRound, stream |-> <<>>, statuses |-> <<>>, changed |-> FALSE,
             phase |-> "", hash |-> 0, commits |-> 0, resets |-> 0]

\* A goroutine or call: where it is (pc), its copy of the session row (sess),
\* the event stored but not yet published (pub), the lines left in the stream
\* it reads (lines), the lines it has read (out), the message it fails the
\* session with (err), the rows a reaper tick still has to reap (todo), what
\* a call returned (ret), the minutes since it started (age), and for the
\* handler of an event stream its channel (ch) and the ids of the events it
\* has written to the client (sent).
NewThread(kind, sid, pc) ==
    [kind |-> kind, sid |-> sid, pc |-> pc, sess |-> NoSession, pub |-> NoEvent,
     lines |-> 0, out |-> 0, desc |-> "", err |-> "", todo |-> {}, ret |-> "",
     after |-> "done", loc |-> NoLocals, age |-> 0, ch |-> 0, sent |-> <<>>]

Th(t) == threads[t]

At(t, kind, pc) == Th(t).kind = kind /\ Th(t).pc = pc /\ Th(t).pub = NoEvent

Live(t) == Th(t).pc # "done" \/ Th(t).pub # NoEvent

\* A goroutine or call that has returned: its locals are gone, what it
\* returned stays.
Done(th, ret) == [NewThread(th.kind, th.sid, "done") EXCEPT !.ret = ret]

\* Publish changes nothing when the session has no subscriber, and no
\* subscriber can come once the calls of the run are used up.
PublishIsNoOp(s) == calls = MaxCalls /\ subs[s] = <<>>

\* Engine.emitEvent, first half: store.AddEvent.  The thread keeps the event,
\* whose ID the Store has set, for the Publish that follows (a Publish that
\* changes nothing is taken in the same step).  next is the thread after
\* emitEvent has returned.
EmitEvent(t, type, data, next) ==
    /\ events' = AddEvent(Th(t).sid, type, data)
    /\ threads' = [threads EXCEPT ![t] =
          IF PublishIsNoOp(Th(t).sid)
          THEN IF next.pc = "done" THEN Done(next, next.ret) ELSE next
          ELSE [next EXCEPT !.pub = [id |-> NextEventID, session_id |-> Th(t).sid,
                                     type |-> type, data |-> data]]]

\* Engine.emitEvent, second half: bus.Publish
EmitEventPublish(t) ==
    /\ Th(t).pub # NoEvent
    /\ Publish(Th(t).sid, Th(t).pub)
    /\ threads' = [threads EXCEPT ![t] = IF @.pc = "done" THEN Done(@, @.ret)
                                          ELSE [@ EXCEPT !.pub = NoEvent]]
    /\ UNCHANGED <<storeVars, subs, containers, agentRuns, prs, calls, harnessVars, taskVars>>

\* lines a script writes to its log: a marker and a text
LogLines == {[marker |-> "STATUS", text |-> "Cloning"], [marker |-> "", text |-> "ok"]}

\* Engine.dispatchLogLine: the event a line becomes
DispatchLogLine(line) ==
    CASE line.marker = "STATUS" -> [type |-> "status", data |-> line.text]
      [] line.marker = "ERROR"  -> [type |-> "error", data |-> line.text]
      [] line.marker = "DONE"   -> [type |-> "status", data |-> "Branch pushed"]
      [] line.marker = "RESULT" -> [type |-> "result", data |-> line.text]
      [] OTHER                  -> [type |-> "output", data |-> line.text]

\* Engine.failSession: sess.Status = error, sess.Error = errMsg, UpdateSession
FailSessionUpdate(t) ==
    /\ Th(t).pc = "fail" /\ Th(t).pub = NoEvent
    /\ LET sess == [Th(t).sess EXCEPT !.status = StatusError, !.error = Th(t).err]
       IN /\ sessions' = UpdateSession(sess)
          /\ threads' = [threads EXCEPT ![t].sess = sess, ![t].pc = "fail_emit"]
    /\ UNCHANGED <<messages, events, busVars, containers, agentRuns, prs, calls, harnessVars, taskVars>>

\* Engine.failSession: emitEvent(sess.ID, "error", errMsg)
FailSessionEmit(t) ==
    /\ Th(t).pc = "fail_emit" /\ Th(t).pub = NoEvent
    /\ EmitEvent(t, "error", Th(t).err, [Th(t) EXCEPT !.pc = Th(t).after, !.after = "done"])
    /\ UNCHANGED <<sessions, messages, busVars, containers, agentRuns, prs, calls, harnessVars, taskVars>>

----------------------------------------------------------------------------
(* Engine.CreateChatSession and initChatSession *)

CreateChatSession(s) ==
    /\ calls < MaxCalls
    /\ sessions[s] = NoSession
    /\ calls' = calls + 1
    /\ sessions' = [sessions EXCEPT ![s] = NewSession(s, ModeChat)]
    /\ threads' = Append(threads, NewThread("init", s, "get"))
    /\ UNCHANGED <<messages, events, busVars, containers, agentRuns, prs, harnessVars, taskVars>>

InitGetSession(t) ==
    /\ At(t, "init", "get")
    /\ threads' = [threads EXCEPT ![t].sess = GetSession(Th(t).sid), ![t].pc = "emit_starting"]
    /\ UNCHANGED <<storeVars, busVars, containers, agentRuns, prs, calls, harnessVars, taskVars>>

InitEmitStarting(t) ==
    /\ At(t, "init", "emit_starting")
    /\ EmitEvent(t, "status", "Starting sandbox...", [Th(t) EXCEPT !.pc = "start"])
    /\ UNCHANGED <<sessions, messages, busVars, containers, agentRuns, prs, calls, harnessVars, taskVars>>

\* sandbox.Start: the container runs, or the call fails and the session is failed
InitStart(t) ==
    /\ At(t, "init", "start")
    /\ \/ /\ containers' = containers \cup {Th(t).sid}
          /\ threads' = [threads EXCEPT ![t].sess.container_id = Th(t).sid,
                                        ![t].pc = "store_container"]
       \/ /\ threads' = [threads EXCEPT ![t].err = "failed to start sandbox", ![t].pc = "fail"]
          /\ UNCHANGED containers
    /\ UNCHANGED <<storeVars, busVars, agentRuns, prs, calls, harnessVars, taskVars>>

\* sess.ContainerID = containerID; store.UpdateSession(sess)
InitStoreContainer(t) ==
    /\ At(t, "init", "store_container")
    /\ sessions' = UpdateSession(Th(t).sess)
    /\ threads' = [threads EXCEPT ![t].pc = "emit_setup"]
    /\ UNCHANGED <<messages, events, busVars, containers, agentRuns, prs, calls, harnessVars, taskVars>>

InitEmitSetup(t) ==
    /\ At(t, "init", "emit_setup")
    /\ EmitEvent(t, "status", "Setting up repository...", [Th(t) EXCEPT !.pc = "exec_setup"])
    /\ UNCHANGED <<sessions, messages, busVars, containers, agentRuns, prs, calls, harnessVars, taskVars>>

\* sandbox.Exec(/setup.sh): a stream of lines, or an error (always an error
\* when the container is not running)
InitExecSetup(t) ==
    /\ At(t, "init", "exec_setup")
    /\ \/ /\ Th(t).sess.container_id \in containers
          /\ \E n \in 0..MaxLines :
                threads' = [threads EXCEPT ![t].lines = n, ![t].pc = "scan_setup"]
       \/ threads' = [threads EXCEPT ![t].err = "failed to run setup", ![t].pc = "fail"]
    /\ UNCHANGED <<storeVars, busVars, containers, agentRuns, prs, calls, harnessVars, taskVars>>

\* for setupStream.Scan() { dispatchLogLine }: a line carries a STATUS or an
\* ERROR marker or is plain output
InitSetupLine(t) ==
    /\ At(t, "init", "scan_setup")
    /\ Th(t).lines > 0
    /\ \E line \in LogLines :
          EmitEvent(t, DispatchLogLine(line).type, DispatchLogLine(line).data,
                    [Th(t) EXCEPT !.lines = @ - 1])
    /\ UNCHANGED <<sessions, messages, busVars, containers, agentRuns, prs, calls, harnessVars, taskVars>>

\* sess.Status = idle; store.UpdateSession(sess)
InitSetIdle(t) ==
    /\ At(t, "init", "scan_setup")
    /\ Th(t).lines = 0
    /\ LET sess == [Th(t).sess EXCEPT !.status = StatusIdle]
       IN /\ sessions' = UpdateSession(sess)
          /\ threads' = [threads EXCEPT ![t].sess = sess, ![t].pc = "emit_ready"]
    /\ UNCHANGED <<messages, events, busVars, containers, agentRuns, prs, calls, harnessVars, taskVars>>

InitEmitReady(t) ==
    /\ At(t, "init", "emit_ready")
    /\ EmitEvent(t, "status", "Ready - send a message to start coding", [Th(t) EXCEPT !.pc = "done"])
    /\ UNCHANGED <<sessions, messages, busVars, containers, agentRuns, prs, calls, harnessVars, taskVars>>

----------------------------------------------------------------------------
(* Runtime *)

\* sandbox.Stop: the container and every process in it end
StopContainer(c) ==
    /\ containers' = containers \ {c}
    /\ agentRuns' = [agentRuns EXCEPT ![c] = 0]

----------------------------------------------------------------------------
(* Engine.SendChatMessage and runChatMessage *)

\* a SendChatMessage that stores the message before it looks at the session
SendChatMessageStoresFirst(s, content) ==
    /\ calls < MaxCalls
    /\ sessions[s] # NoSession
    /\ calls' = calls + 1
    /\ messages' = AddMessage(s, "user", content)
    /\ LET sess == GetSession(s)
           call == NewThread("send", s, "count")
       IN threads' = Append(threads,
            IF sess.mode # ModeChat THEN Done(call, "not a chat session")
            ELSE IF sess.status # StatusIdle THEN Done(call, "not idle")
            ELSE IF sess.container_id = "" THEN Done(call, "no container")
            ELSE [call EXCEPT !.sess = sess, !.desc = content])
    /\ UNCHANGED <<sessions, events, busVars, containers, agentRuns, prs, harnessVars, taskVars>>

\* SendChatMessage up to the message count: GetSession and the checks of the
\* mode, the status and the container
SendChatMessage(s, content) ==
    /\ calls < MaxCalls
    /\ sessions[s] # NoSession
    /\ calls' = calls + 1
    /\ LET sess == GetSession(s)
           call == NewThread("send", s, "count")
       IN threads' = Append(threads,
            IF sess.mode # ModeChat THEN Done(call, "not a chat session")
            ELSE IF sess.status # StatusIdle THEN Done(call, "not idle")
            ELSE IF sess.container_id = "" THEN Done(call, "no container")
            ELSE [call EXCEPT !.sess = sess, !.desc = content])
    /\ UNCHANGED <<storeVars, busVars, containers, agentRuns, prs, harnessVars, taskVars>>

\* GetMessages, the count of the user messages and the ChatMaxMessages check
SendCountMessages(t) ==
    /\ At(t, "send", "count")
    /\ threads' = IF UserMsgCount(GetMessages(Th(t).sid)) >= ChatMaxMessages
                  THEN [threads EXCEPT ![t] = Done(@, "message limit reached")]
                  ELSE [threads EXCEPT ![t].pc = "add"]
    /\ UNCHANGED <<storeVars, busVars, containers, agentRuns, prs, calls, harnessVars, taskVars>>

\* store.AddMessage(msg); go runChatMessage(sessionID, msg.Content); return msg
SendAddMessage(t) ==
    /\ At(t, "send", "add")
    /\ messages' = AddMessage(Th(t).sid, "user", Th(t).desc)
    /\ threads' = Append([threads EXCEPT ![t] = Done(@, "accepted")],
                         NewThread("chat", Th(t).sid, "get"))
    /\ UNCHANGED <<sessions, events, busVars, containers, agentRuns, prs, calls, harnessVars, taskVars>>

ChatGetSession(t) ==
    /\ At(t, "chat", "get")
    /\ threads' = [threads EXCEPT ![t].sess = GetSession(Th(t).sid), ![t].pc = "set_running"]
    /\ UNCHANGED <<storeVars, busVars, containers, agentRuns, prs, calls, harnessVars, taskVars>>

\* sess.Status = running; store.UpdateSession(sess)
ChatSetRunning(t) ==
    /\ At(t, "chat", "set_running")
    /\ LET sess == [Th(t).sess EXCEPT !.status = StatusRunning]
       IN /\ sessions' = UpdateSession(sess)
          /\ threads' = [threads EXCEPT ![t].sess = sess, ![t].pc = "emit_running"]
    /\ UNCHANGED <<messages, events, busVars, containers, agentRuns, prs, calls, harnessVars, taskVars>>

ChatEmitRunning(t) ==
    /\ At(t, "chat", "emit_running")
    /\ EmitEvent(t, "status", "Running agent...", [Th(t) EXCEPT !.pc = "exec"])
    /\ UNCHANGED <<sessions, messages, busVars, containers, agentRuns, prs, calls, harnessVars, taskVars>>

\* sandbox.Exec(bash -c agentCmd): the agent starts in the container and its
\* output is streamed, or the call fails (always when the container is not
\* running)
ChatExec(t) ==
    /\ At(t, "chat", "exec")
    /\ \/ /\ Th(t).sess.container_id \in containers
          /\ agentRuns' = [agentRuns EXCEPT ![Th(t).sess.container_id] = @ + 1]
          /\ \E n \in 0..MaxLines :
                threads' = [threads EXCEPT ![t].lines = n, ![t].pc = "scan"]
       \/ /\ threads' = [threads EXCEPT ![t].pc = "emit_exec_error"]
          /\ UNCHANGED agentRuns
    /\ UNCHANGED <<storeVars, busVars, containers, prs, calls, harnessVars, taskVars>>

ChatEmitExecError(t) ==
    /\ At(t, "chat", "emit_exec_error")
    /\ EmitEvent(t, "error", "Agent failed to start", [Th(t) EXCEPT !.pc = "idle_after_error"])
    /\ UNCHANGED <<sessions, messages, busVars, containers, agentRuns, prs, calls, harnessVars, taskVars>>

\* the return after a failed Exec: sess.Status = idle; store.UpdateSession(sess)
ChatSetIdleAfterError(t) ==
    /\ At(t, "chat", "idle_after_error")
    /\ LET sess == [Th(t).sess EXCEPT !.status = StatusIdle]
       IN /\ sessions' = UpdateSession(sess)
          /\ threads' = [threads EXCEPT ![t] = Done(@, "")]
    /\ UNCHANGED <<messages, events, busVars, containers, agentRuns, prs, calls, harnessVars, taskVars>>

\* for agentStream.Scan() { outputLines = append(...); emitEvent("output", line) }
ChatOutputLine(t) ==
    /\ At(t, "chat", "scan")
    /\ Th(t).lines > 0
    /\ Th(t).sess.container_id \in containers
    /\ EmitEvent(t, "output", "agent line", [Th(t) EXCEPT !.lines = @ - 1, !.out = @ + 1])
    /\ UNCHANGED <<sessions, messages, busVars, containers, agentRuns, prs, calls, harnessVars, taskVars>>

\* Scan returns false: the agent has ended, or the container was stopped under it
ChatStreamEnd(t) ==
    /\ At(t, "chat", "scan")
    /\ Th(t).lines = 0 \/ Th(t).sess.container_id \notin containers
    /\ agentRuns' = [agentRuns EXCEPT ![Th(t).sess.container_id] =
                        IF @ > 0 THEN @ - 1 ELSE 0]
    /\ threads' = [threads EXCEPT ![t].lines = 0, ![t].pc = "add_assistant"]
    /\ UNCHANGED <<storeVars, busVars, containers, prs, calls, harnessVars, taskVars>>

\* the assistant message: the lines joined, or "(no output)"
ChatAddAssistant(t) ==
    /\ At(t, "chat", "add_assistant")
    /\ messages' = AddMessage(Th(t).sid, "assistant",
                              IF Th(t).out = 0 THEN "(no output)" ELSE "agent line")
    /\ threads' = [threads EXCEPT ![t].pc = "set_idle"]
    /\ UNCHANGED <<sessions, events, busVars, containers, agentRuns, prs, calls, harnessVars, taskVars>>

\* sess.Status = idle; store.UpdateSession(sess)
ChatSetIdle(t) ==
    /\ At(t, "chat", "set_idle")
    /\ LET sess == [Th(t).sess EXCEPT !.status = StatusIdle]
       IN /\ sessions' = UpdateSession(sess)
          /\ threads' = [threads EXCEPT ![t].sess = sess, ![t].pc = "emit_ready"]
    /\ UNCHANGED <<messages, events, busVars, containers, agentRuns, prs, calls, harnessVars, taskVars>>

ChatEmitReady(t) ==
    /\ At(t, "chat", "emit_ready")
    /\ EmitEvent(t, "status", "Ready", [Th(t) EXCEPT !.pc = "done"])
    /\ UNCHANGED <<sessions, messages, busVars, containers, agentRuns, prs, calls, harnessVars, taskVars>>

----------------------------------------------------------------------------
(* Engine.CreatePRFromChat *)

\* the URL the git provider gives pull request n
PRUrl(n) == <<"pull/1", "pull/2", "pull/3", "pull/4", "pull/5", "pull/6">>[n]

\* CreatePRFromChat up to its first event: GetSession and the checks of the
\* mode, the status and the container
CreatePRFromChat(s) ==
    /\ calls < MaxCalls
    /\ sessions[s] # NoSession
    /\ calls' = calls + 1
    /\ LET sess == GetSession(s)
           call == NewThread("pr", s, "emit_committing")
       IN threads' = Append(threads,
            IF sess.mode # ModeChat THEN Done(call, "not a chat session")
            ELSE IF sess.status # StatusIdle THEN Done(call, "not idle")
            ELSE IF sess.container_id = "" THEN Done(call, "no container")
            ELSE [call EXCEPT !.sess = sess])
    /\ UNCHANGED <<storeVars, busVars, containers, agentRuns, prs, harnessVars, taskVars>>

PREmitCommitting(t) ==
    /\ At(t, "pr", "emit_committing")
    /\ EmitEvent(t, "status", "Committing and pushing changes...", [Th(t) EXCEPT !.pc = "get_messages"])
    /\ UNCHANGED <<sessions, messages, busVars, containers, agentRuns, prs, calls, harnessVars, taskVars>>

\* commitDesc: the first user message, or "chat session changes"
PRGetMessages(t) ==
    /\ At(t, "pr", "get_messages")
    /\ LET msgs == GetMessages(Th(t).sid)
           users == {i \in 1..Len(msgs) : msgs[i].role = "user"}
           first == CHOOSE i \in users : \A j \in users : i <= j
       IN threads' = [threads EXCEPT ![t].pc = "commit",
                          ![t].desc = IF users = {} THEN "chat session changes"
                                      ELSE msgs[first].content]
    /\ UNCHANGED <<storeVars, busVars, containers, agentRuns, prs, calls, harnessVars, taskVars>>

\* sandbox.CommitAndPush: done, or an error (always an error when the
\* container is not running) that the call returns
PRCommitAndPush(t) ==
    /\ At(t, "pr", "commit")
    /\ \/ /\ Th(t).sess.container_id \in containers
          /\ threads' = [threads EXCEPT ![t].pc = "emit_creating"]
       \/ threads' = [threads EXCEPT ![t] = Done(@, "commit/push failed")]
    /\ UNCHANGED <<storeVars, busVars, containers, agentRuns, prs, calls, harnessVars, taskVars>>

PREmitCreating(t) ==
    /\ At(t, "pr", "emit_creating")
    /\ EmitEvent(t, "status", "Creating pull request...", [Th(t) EXCEPT !.pc = "create_pr"])
    /\ UNCHANGED <<sessions, messages, busVars, containers, agentRuns, prs, calls, harnessVars, taskVars>>

\* git.CreatePR: the provider opens pull request Len(prs) + 1 for the branch,
\* or the call fails and CreatePRFromChat returns the error
PRCreatePR(t) ==
    /\ At(t, "pr", "create_pr")
    /\ \/ /\ prs' = Append(prs, Th(t).sess.branch)
          /\ threads' = [threads EXCEPT ![t].pc = "set_complete",
                             ![t].sess.pr_url = PRUrl(Len(prs) + 1),
                             ![t].sess.pr_number = Len(prs) + 1]
       \/ /\ threads' = [threads EXCEPT ![t] = Done(@, "failed to create PR")]
          /\ UNCHANGED prs
    /\ UNCHANGED <<storeVars, busVars, containers, agentRuns, calls, harnessVars, taskVars>>

\* sess.PRUrl, sess.PRNumber, sess.Status = complete; store.UpdateSession(sess)
PRSetComplete(t) ==
    /\ At(t, "pr", "set_complete")
    /\ LET sess == [Th(t).sess EXCEPT !.status = StatusComplete]
       IN /\ sessions' = UpdateSession(sess)
          /\ threads' = [threads EXCEPT ![t].sess = sess, ![t].pc = "emit_done"]
    /\ UNCHANGED <<messages, events, busVars, containers, agentRuns, prs, calls, harnessVars, taskVars>>

PREmitDone(t) ==
    /\ At(t, "pr", "emit_done")
    /\ EmitEvent(t, "done", Th(t).sess.pr_url, [Th(t) EXCEPT !.pc = "done"])
    /\ UNCHANGED <<sessions, messages, busVars, containers, agentRuns, prs, calls, harnessVars, taskVars>>

----------------------------------------------------------------------------
(* Server.handleStopSession *)

\* GetSession
HandleStopSession(s) ==
    /\ calls < MaxCalls
    /\ sessions[s] # NoSession
    /\ calls' = calls + 1
    /\ LET sess == GetSession(s)
       IN threads' = Append(threads,
            [NewThread("stop", s, IF sess.container_id # "" THEN "stop_container"
                                  ELSE "update") EXCEPT !.sess = sess])
    /\ UNCHANGED <<storeVars, busVars, containers, agentRuns, prs, harnessVars, taskVars>>

\* sandbox.Stop(sess.ContainerID)
StopStopContainer(t) ==
    /\ At(t, "stop", "stop_container")
    /\ StopContainer(Th(t).sess.container_id)
    /\ threads' = [threads EXCEPT ![t].pc = "update"]
    /\ UNCHANGED <<storeVars, busVars, prs, calls, harnessVars, taskVars>>

\* sess.Status = error; sess.Error = "stopped by user"; store.UpdateSession(sess)
StopUpdate(t) ==
    /\ At(t, "stop", "update")
    /\ LET sess == [Th(t).sess EXCEPT !.status = StatusError, !.error = "stopped by user"]
       IN /\ sessions' = UpdateSession(sess)
          /\ threads' = [threads EXCEPT ![t] = Done(@, "stopped")]
    /\ UNCHANGED <<messages, events, busVars, containers, agentRuns, prs, calls, harnessVars, taskVars>>

----------------------------------------------------------------------------
(* Engine.reapIdleChatSessions *)

\* A tick of the reaper: ListSessions, and the idle chat sessions whose
\* updated_at is older than ChatIdleTimeout.  Which of them are that old is
\* the clock's choice; a tick that finds none changes nothing.
ReaperTick ==
    /\ calls < MaxCalls
    /\ \A t \in DOMAIN threads : Th(t).kind = "reaper" => ~Live(t)
    /\ \E expired \in SUBSET {r \in ListSessions :
                                r.mode = ModeChat /\ r.status = StatusIdle} :
          /\ expired # {}
          /\ threads' = Append(threads, [NewThread("reaper", "", "next") EXCEPT
                                            !.todo = expired])
    /\ calls' = calls + 1
    /\ UNCHANGED <<storeVars, busVars, containers, agentRuns, prs, harnessVars, taskVars>>

\* the next expired row in the order of ListSessions (newest first), and
\* sandbox.Stop if it has a container
ReaperStop(t) ==
    /\ At(t, "reaper", "next")
    /\ LET sess == CHOOSE r \in Th(t).todo :
                      \A q \in Th(t).todo : q.created_at <= r.created_at
       IN /\ threads' = [threads EXCEPT ![t].sess = sess, ![t].sid = sess.id,
                                        ![t].todo = @ \ {sess}, ![t].pc = "update"]
          /\ IF sess.container_id # "" THEN StopContainer(sess.container_id)
             ELSE UNCHANGED <<containers, agentRuns>>
    /\ UNCHANGED <<storeVars, busVars, prs, calls, harnessVars, taskVars>>

\* sess.Status = error; sess.Error = "session timed out due to inactivity";
\* store.UpdateSession(sess)
ReaperUpdate(t) ==
    /\ At(t, "reaper", "update")
    /\ LET sess == [Th(t).sess EXCEPT !.status = StatusError,
                        !.error = "session timed out due to inactivity"]
       IN /\ sessions' = UpdateSession(sess)
          /\ threads' = [threads EXCEPT ![t].sess = sess, ![t].pc = "emit"]
    /\ UNCHANGED <<messages, events, busVars, containers, agentRuns, prs, calls, harnessVars, taskVars>>

\* a reaper that returns after the first expired row
ReaperEmitOnce(t) ==
    /\ At(t, "reaper", "emit")
    /\ EmitEvent(t, "status", "Session stopped (idle timeout)", [Th(t) EXCEPT !.pc = "done"])
    /\ UNCHANGED <<sessions, messages, busVars, containers, agentRuns, prs, calls, harnessVars, taskVars>>

\* emitEvent after the row is stored, and the next row of the loop
ReaperEmit(t) ==
    /\ At(t, "reaper", "emit")
    /\ EmitEvent(t, "status", "Session stopped (idle timeout)",
                 [Th(t) EXCEPT !.pc = IF Th(t).todo = {} THEN "done" ELSE "next"])
    /\ UNCHANGED <<sessions, messages, busVars, containers, agentRuns, prs, calls, harnessVars, taskVars>>

----------------------------------------------------------------------------
(* Server.handleSessionEvents *)

\* An SSE client asks for a session's events.  The handler checks that the
\* session exists and writes the historical events, GetEvents(id, 0), to the
\* client (out is how many); in a later step it subscribes to the Bus, and
\* from then on it writes every event its channel receives to the client,
\* until the client goes away (ctx.Done) and the deferred Unsubscribe runs.
HandleSessionEvents(s) ==
    \/ /\ calls < MaxCalls
       /\ sessions[s] # NoSession
       /\ Len(chans) + Cardinality({t \in DOMAIN threads : At(t, "sse", "subscribe")})
             < MaxChans
       /\ calls' = calls + 1
       /\ LET history == GetEvents(events, s, 0)
          IN threads' = Append(threads, [NewThread("sse", s, "subscribe") EXCEPT
                           !.out = Len(history),
                           !.sent = [i \in 1..Len(history) |-> history[i].id]])
       /\ UNCHANGED <<storeVars, busVars, containers, agentRuns, prs, harnessVars, taskVars>>
    \/ \E t \in DOMAIN threads :
          /\ Th(t).kind = "sse" /\ Th(t).sid = s
          /\ \/ /\ Th(t).pc = "subscribe"
                /\ Subscribe(s)
                /\ threads' = [threads EXCEPT ![t].ch = Len(chans) + 1,
                                              ![t].ret = "subscribed",
                                              ![t].pc = "forward"]
             \/ /\ Th(t).pc = "forward"
                /\ Receive(Th(t).ch)
                /\ UNCHANGED subs
                /\ threads' = [threads EXCEPT ![t].sent = Append(@, Head(chans[Th(t).ch].buf).id)]
             \/ /\ Th(t).pc = "forward"
                /\ Unsubscribe(s, Th(t).ch)
                /\ threads' = [threads EXCEPT ![t] = Done(@, "subscribed")]
          /\ UNCHANGED <<storeVars, containers, agentRuns, prs, calls, harnessVars, taskVars>>

----------------------------------------------------------------------------
(* The chat engine *)

Next ==
    \/ \E s \in ChatSessions : CreateChatSession(s)
    \/ \E s \in ChatSessions, content \in Contents : SendChatMessage(s, content)
    \/ \E s \in ChatSessions : CreatePRFromChat(s)
    \/ \E s \in ChatSessions : HandleStopSession(s)
    \/ \E s \in ChatSessions : HandleSessionEvents(s)
    \/ ReaperTick
    \/ \E t \in DOMAIN threads :
          \/ EmitEventPublish(t)
          \/ FailSessionUpdate(t)
          \/ FailSessionEmit(t)
          \/ InitGetSession(t)
          \/ InitEmitStarting(t)
          \/ InitStart(t)
          \/ InitStoreContainer(t)
          \/ InitEmitSetup(t)
          \/ InitExecSetup(t)
          \/ InitSetupLine(t)
          \/ InitSetIdle(t)
          \/ InitEmitReady(t)
          \/ SendCountMessages(t)
          \/ SendAddMessage(t)
          \/ ChatGetSession(t)
          \/ ChatSetRunning(t)
          \/ ChatEmitRunning(t)
          \/ ChatExec(t)
          \/ ChatEmitExecError(t)
          \/ ChatSetIdleAfterError(t)
          \/ ChatOutputLine(t)
          \/ ChatStreamEnd(t)
          \/ ChatAddAssistant(t)
          \/ ChatSetIdle(t)
          \/ ChatEmitReady(t)
          \/ PREmitCommitting(t)
          \/ PRGetMessages(t)
          \/ PRCommitAndPush(t)
          \/ PREmitCreating(t)
          \/ PRCreatePR(t)
          \/ PRSetComplete(t)
          \/ PREmitDone(t)
          \/ StopStopContainer(t)
          \/ StopUpdate(t)
          \/ ReaperStop(t)
          \/ ReaperUpdate(t)
          \/ ReaperEmit(t)

Spec == Init /\ [][Next]_vars

----------------------------------------------------------------------------
(* The idle reaper over several chat sessions *)

ReaperNext ==
    \/ \E s \in Sessions : CreateChatSession(s)
    \/ ReaperTick
    \/ \E t \in DOMAIN threads :
          \/ EmitEventPublish(t)
          \/ FailSessionUpdate(t)
          \/ FailSessionEmit(t)
          \/ InitGetSession(t)
          \/ InitEmitStarting(t)
          \/ InitStart(t)
          \/ InitStoreContainer(t)
          \/ InitEmitSetup(t)
          \/ InitExecSetup(t)
          \/ InitSetupLine(t)
          \/ InitSetIdle(t)
          \/ InitEmitReady(t)
          \/ ReaperStop(t)
          \/ ReaperUpdate(t)
          \/ ReaperEmit(t)

SpecReaper == Init /\ [][ReaperNext]_vars

----------------------------------------------------------------------------
(* failSession called directly, one call after another (TestFailSession) *)

\* calls of failSession on one session
MaxFailCalls == 2

\* the messages failSession is called with
ErrMsgs == {"test error", "sandbox failed", "timeout"}

\* CreateAndRunSession's row
FailCreateSession(s) ==
    /\ sessions[s] = NoSession
    /\ sessions' = [sessions EXCEPT ![s] = NewSession(s, ModeTask)]
    /\ UNCHANGED <<messages, events, busVars, engineVars, harnessVars, taskVars>>

\* got, _ := Store().GetSession(id); failSession(got, msg), once every
\* earlier call has returned
FailCall(s, msg) ==
    /\ sessions[s] # NoSession
    /\ Len(failCalls[s]) < MaxFailCalls
    /\ \A t \in DOMAIN threads : ~Live(t)
    /\ failCalls' = [failCalls EXCEPT ![s] = Append(@, msg)]
    /\ threads' = Append(threads, [NewThread("fail", s, "fail") EXCEPT
                                      !.sess = GetSession(s), !.err = msg])
    /\ UNCHANGED <<storeVars, busVars, containers, agentRuns, prs, calls,
                   storeHarness, busHarness, pureHarness, taskVars>>

FailNext ==
    \/ \E s \in Sessions : FailCreateSession(s)
    \/ \E s \in Sessions, msg \in ErrMsgs : FailCall(s, msg)
    \/ \E t \in DOMAIN threads :
          \/ FailSessionUpdate(t)
          \/ FailSessionEmit(t)
          \/ EmitEventPublish(t)

SpecFail == Init /\ [][FailNext]_vars

----------------------------------------------------------------------------
(* pipeline.DecomposeStage and the Engine's use of it *)

\* Config.MaxSubTasks values a deployment sets (0 means the default)
MaxConfig == 6

\* sub-tasks an LLM answer lists
MaxListed == 7

\* calls a run of the Decompose harness makes
MaxDecomposeCalls == 2

\* the limit runSession takes for Config.MaxSubTasks = 0
DefaultMaxSubTasks == 5

\* the sub-tasks of an answer, in the order the answer lists them
TaskTitles == [i \in 1..(MaxListed + 1) |-> i]

\* the single sub-task that stands for the whole prompt ("Complete task")
CompleteTask == <<0>>

\* the answers of the LLM to a decomposition prompt
DecomposeAnswers ==
    {[NoAnswer EXCEPT !.err = TRUE], NoAnswer}
    \cup {[NoAnswer EXCEPT !.json = TRUE, !.tasks = SubSeq(TaskTitles, 1, n)] :
             n \in 0..MaxListed}

\* DecomposeStage.ExecuteWithMaxSubTasks: maxSubTasks shapes the prompt only
\* (hint: "You may return up to %d steps."); ctx.SubTasks is the fallback
\* sub-task when the answer does not parse or is empty, else every sub-task
\* the answer lists.
ExecuteWithMaxSubTasks(answer, maxSubTasks) ==
    IF answer.err
    THEN [err |-> TRUE, hint |-> maxSubTasks > 5, subTasks |-> <<>>]
    ELSE [err |-> FALSE, hint |-> maxSubTasks > 5,
          subTasks |-> IF ~answer.json \/ Len(answer.tasks) = 0 THEN CompleteTask
                       ELSE answer.tasks]

\* maxST := e.config.MaxSubTasks; if maxST == 0 { maxST = 5 }
MaxST(config) == IF config = 0 THEN DefaultMaxSubTasks ELSE config

\* runSession's decomposition with the list left as the stage returned it
SubTasksUncut(config, answer) ==
    LET r == ExecuteWithMaxSubTasks(answer, MaxST(config))
    IN IF r.err THEN CompleteTask ELSE r.subTasks

\* runSession, the decomposition: the list is the fallback sub-task when the
\* stage fails, else the stage's list cut to maxST.
SubTasks(config, answer) ==
    LET r == ExecuteWithMaxSubTasks(answer, MaxST(config))
    IN IF r.err THEN CompleteTask
       ELSE IF Len(r.subTasks) > MaxST(config) THEN SubSeq(r.subTasks, 1, MaxST(config))
       ELSE r.subTasks

\* harness: one decomposition as runSession makes it
DecomposeCall(config, answer) ==
    /\ decomposed.calls < MaxDecomposeCalls
    /\ decomposed' = [calls |-> decomposed.calls + 1, config |-> config, answer |-> answer,
                      stage |-> ExecuteWithMaxSubTasks(answer, MaxST(config)),
                      used |-> SubTasks(config, answer)]
    /\ UNCHANGED <<storeVars, busVars, storeHarness, busHarness, failHarness, evaluated,
                   summaries, recalled, engineVars, taskVars>>

DecomposeNext == \E config \in 0..MaxConfig, answer \in DecomposeAnswers :
                    DecomposeCall(config, answer)

SpecDecompose == Init /\ [][DecomposeNext]_vars

----------------------------------------------------------------------------
(* Engine: task sessions, runSession and the single-task path *)

\* Config.MaxRevisions
MaxRevisions == 1

\* Config.MaxSubTasks
MaxSubTasks == 2

\* the task sessions a run creates
TaskSessions == {"s1"}

Loc(t) == Th(t).loc

\* the logs a sandbox round writes.  Its lines: plain output, the DONE marker
\* with the branch, a RESULT marker whose JSON says text or pr, a RESULT
\* marker whose JSON does not parse.
TaskStreams ==
    LET PlainLine == [marker |-> "", text |-> "ok"]
        DoneLine  == [marker |-> "DONE", text |-> "branch"]
        TextLine  == [marker |-> "RESULT", text |-> "{type:text}"]
        PRLine    == [marker |-> "RESULT", text |-> "{type:pr}"]
        BadLine   == [marker |-> "RESULT", text |-> "{"]
    IN {<<>>, <<PlainLine>>, <<DoneLine>>, <<PlainLine, DoneLine>>, <<TextLine>>,
        <<PlainLine, TextLine>>, <<PRLine>>, <<BadLine>>}

\* Engine.CreateAndRunSessionWithAgent: the row is created pending, in task
\* mode, and runSession is started
CreateAndRunSession(s) ==
    /\ calls < MaxCalls
    /\ sessions[s] = NoSession
    /\ calls' = calls + 1
    /\ sessions' = [sessions EXCEPT ![s] = NewSession(s, ModeTask)]
    /\ threads' = Append(threads, NewThread("task", s, "get"))
    /\ UNCHANGED <<messages, events, busVars, containers, agentRuns, prs, harnessVars, taskVars>>

\* The calls of emitEvent in runSession, runSubTask,
\* runSandboxRoundWithAgent, runVerify and runSessionMultiStep that are
\* followed by the next statement whatever happened: where the worker is,
\* the event, where the worker goes, and what the multi-step loop is in the
\* middle of from then on (pre-validation, fix, step run, verification of
\* the step, revision).  Each row names the line of its call.
TaskEmits ==
    {\* line 617
     [at |-> "emit_indexing", type |-> "status", data |-> "Indexing repository...",
      to |-> "index", phase |-> ""],
     \* line 629
     [at |-> "emit_analyzing", type |-> "status", data |-> "Analyzing task complexity...",
      to |-> "decompose", phase |-> ""],
     \* line 1001
     [at |-> "emit_planning", type |-> "status", data |-> "Planning task...",
      to |-> "plan", phase |-> ""],
     \* line 1023
     [at |-> "emit_revision", type |-> "status", data |-> "Starting revision round",
      to |-> "emit_starting", phase |-> ""],
     \* line 1105
     [at |-> "emit_starting", type |-> "status", data |-> "Starting sandbox...",
      to |-> "start", phase |-> ""],
     \* line 1125
     [at |-> "emit_started", type |-> "status", data |-> "Sandbox started, running agent...",
      to |-> "stream", phase |-> ""],
     \* line 1172
     [at |-> "emit_verifying", type |-> "status", data |-> "Running tests and linting...",
      to |-> "verify", phase |-> ""],
     \* line 1068
     [at |-> "emit_reviewing", type |-> "status", data |-> "Reviewing changes...",
      to |-> "review", phase |-> ""],
     \* line 1090
     [at |-> "emit_review_max", type |-> "status", data |-> "Max revision rounds reached, proceeding",
      to |-> "finalize", phase |-> ""],
     \* line 723
     [at |-> "m_emit_setup", type |-> "status", data |-> "Setting up repository...",
      to |-> "m_exec_setup", phase |-> ""],
     \* line 745
     [at |-> "m_emit_step", type |-> "step", data |-> "Step",
      to |-> "m_emit_running", phase |-> ""],
     \* line 757
     [at |-> "m_emit_prevalidating", type |-> "status", data |-> "Pre-validating previous work...",
      to |-> "m_emit_verifying", phase |-> "pre"],
     \* line 1172
     [at |-> "m_emit_verifying", type |-> "status", data |-> "Running tests and linting...",
      to |-> "m_verify", phase |-> ""],
     \* line 760
     [at |-> "m_emit_prefailed", type |-> "output", data |-> "## Pre-validation Failed",
      to |-> "m_emit_correcting", phase |-> ""],
     \* line 763
     [at |-> "m_emit_correcting", type |-> "status", data |-> "Attempting self-correction...",
      to |-> "m_agent_exec", phase |-> "fix"],
     \* line 772
     [at |-> "m_emit_rollback", type |-> "status", data |-> "Self-correction failed, rolling back to last checkpoint",
      to |-> "m_emit_planning", phase |-> ""],
     \* line 784
     [at |-> "m_emit_corrected", type |-> "status", data |-> "Self-correction succeeded",
      to |-> "m_fix_checkpoint", phase |-> ""],
     \* line 792
     [at |-> "m_emit_fix_failed", type |-> "status", data |-> "Self-correction agent failed, rolling back",
      to |-> "m_emit_planning", phase |-> ""],
     \* line 810
     [at |-> "m_emit_planning", type |-> "status", data |-> "Planning step",
      to |-> "m_plan", phase |-> ""],
     \* line 832
     [at |-> "m_emit_running_agent", type |-> "status", data |-> "Running agent for step",
      to |-> "m_agent_exec", phase |-> "run"],
     \* line 836
     [at |-> "m_emit_step_failed", type |-> "status", data |-> "Step failed: agent exec failed",
      to |-> "m_emit_progress_failed", phase |-> ""],
     \* line 844
     [at |-> "m_emit_postverify", type |-> "status", data |-> "Verifying changes...",
      to |-> "m_emit_verifying", phase |-> "post"],
     \* line 847
     [at |-> "m_emit_verify_failed", type |-> "output", data |-> "## Verify Failed",
      to |-> "m_agent_exec", phase |-> "revise"],
     \* line 875
     [at |-> "m_emit_pushing", type |-> "status", data |-> "Pushing branch...",
      to |-> "m_push", phase |-> ""],
     \* line 882
     [at |-> "m_emit_creating", type |-> "status", data |-> "Creating pull request...",
      to |-> "m_create_pr", phase |-> ""],
     \* line 934
     [at |-> "m_emit_done_text", type |-> "done", data |-> "All steps completed without code changes.",
      to |-> "m_stop", phase |-> ""]}

\* one such call of emitEvent
TaskEmit(t) ==
    /\ Th(t).kind = "task" /\ Th(t).pub = NoEvent
    /\ \E e \in TaskEmits :
          /\ e.at = Th(t).pc
          /\ EmitEvent(t, e.type, e.data,
                       [Th(t) EXCEPT !.pc = e.to,
                                     !.loc.phase = IF e.phase = "" THEN @ ELSE e.phase])
    /\ UNCHANGED <<sessions, messages, busVars, containers, agentRuns, prs, calls, harnessVars, taskVars>>

\* store.UpdateSession(sess) with what the worker has set in its copy of the
\* row: the container and status running (runSandboxRoundWithAgent,
\* runSessionMultiStep), the pull request and the result (finalizeSession,
\* runSessionMultiStep)
TaskStore(t) ==
    /\ Th(t).kind = "task" /\ Th(t).pub = NoEvent
    /\ \E w \in {<<"store_running", "emit_started">>, <<"store_complete", "emit_done">>,
                  <<"m_store_running", "m_emit_setup">>, <<"m_store_complete", "m_emit_done">>} :
          /\ w[1] = Th(t).pc
          /\ sessions' = UpdateSession(Th(t).sess)
          /\ threads' = [threads EXCEPT ![t].pc = w[2]]
    /\ UNCHANGED <<messages, events, busVars, containers, agentRuns, prs, calls, harnessVars, taskVars>>

\* runSession: store.GetSession
TaskGetSession(t) ==
    /\ At(t, "task", "get")
    /\ threads' = [threads EXCEPT ![t].sess = GetSession(Th(t).sid), ![t].pc = "emit_indexing"]
    /\ UNCHANGED <<storeVars, busVars, containers, agentRuns, prs, calls, harnessVars, taskVars>>

\* git.IndexRepo and the event that tells its outcome
TaskIndexRepo(t) ==
    /\ At(t, "task", "index")
    /\ \E data \in {"Repository indexed", "Repo indexing failed, proceeding without context"} :
          EmitEvent(t, "status", data, [Th(t) EXCEPT !.pc = "emit_analyzing"])
    /\ UNCHANGED <<sessions, messages, busVars, containers, agentRuns, prs, calls, harnessVars, taskVars>>

\* the decomposition, "Task decomposed into %d steps" for more than one
\* sub-task, and the choice of the path
TaskDecompose(t) ==
    /\ At(t, "task", "decompose")
    /\ \E answer \in DecomposeAnswers :
          LET n == Len(SubTasks(MaxSubTasks, answer))
          IN IF n > 1
             THEN EmitEvent(t, "status", "Task decomposed into steps",
                            [Th(t) EXCEPT !.loc.n = n, !.pc = "m_emit_start"])
             ELSE /\ threads' = [threads EXCEPT ![t].loc.n = n, ![t].loc.i = 1,
                                                ![t].pc = "emit_planning"]
                  /\ UNCHANGED events
    /\ UNCHANGED <<sessions, messages, busVars, containers, agentRuns, prs, calls, harnessVars, taskVars>>

\* a runSubTask that returns the error of plan.Execute
SubPlanFatal(t) ==
    /\ At(t, "task", "plan")
    /\ \/ EmitEvent(t, "output", "## Plan",
                    [Th(t) EXCEPT !.loc.plan = TRUE, !.loc.round = 0, !.pc = "emit_starting"])
       \/ EmitEvent(t, "status", "Planning failed",
                    [Th(t) EXCEPT !.err = "planning failed", !.pc = "fail", !.after = "done"])
    /\ UNCHANGED <<sessions, messages, busVars, containers, agentRuns, prs, calls, harnessVars, taskVars>>

\* plan.Execute and its event: a plan, or none when planning fails
SubPlan(t) ==
    /\ At(t, "task", "plan")
    /\ \/ EmitEvent(t, "output", "## Plan",
                    [Th(t) EXCEPT !.loc.plan = TRUE, !.loc.round = 0, !.pc = "emit_starting"])
       \/ EmitEvent(t, "status", "Planning failed, using direct prompt",
                    [Th(t) EXCEPT !.loc.plan = FALSE, !.loc.round = 0, !.pc = "emit_starting"])
    /\ UNCHANGED <<sessions, messages, busVars, containers, agentRuns, prs, calls, harnessVars, taskVars>>

\* What runSessionSingleTask does with an error of runSubTask: failSession
\* and return (its own lastResult is nil for the only sub-task, so no
\* container is stopped).
StepFailed(th, msg) == [th EXCEPT !.err = msg, !.pc = "fail", !.after = "done"]

\* sandbox.Start: a new container runs, or the round fails
RoundStart(t) ==
    /\ At(t, "task", "start")
    /\ \/ /\ starts < Len(ContainerIDs)
          /\ starts' = starts + 1
          /\ containers' = containers \cup {ContainerIDs[starts + 1]}
          /\ threads' = [threads EXCEPT
                ![t].sess.container_id = ContainerIDs[starts + 1],
                ![t].sess.status = StatusRunning,
                ![t].loc.cur = [NoRound EXCEPT !.cid = ContainerIDs[starts + 1]],
                ![t].pc = "store_running"]
       \/ /\ threads' = [threads EXCEPT ![t] = StepFailed(@, "step failed: failed to start sandbox")]
          /\ UNCHANGED <<containers, starts>>
    /\ UNCHANGED <<storeVars, busVars, agentRuns, prs, calls, harnessVars, pushed>>

\* sandbox.StreamLogs: a stream of lines, or an error
RoundStreamLogs(t) ==
    /\ At(t, "task", "stream")
    /\ \/ \E stream \in TaskStreams :
             threads' = [threads EXCEPT ![t].loc.stream = stream, ![t].pc = "scan"]
       \/ threads' = [threads EXCEPT ![t] = StepFailed(@, "step failed: failed to stream logs")]
    /\ UNCHANGED <<storeVars, busVars, containers, agentRuns, prs, calls, harnessVars, taskVars>>

\* The switch on a line of the log: DONE gives the branch and the result type
\* pr, a RESULT whose JSON parses gives its type, a line without marker is
\* collected.
ScanLine(th, line) ==
    [th EXCEPT !.loc.stream = Tail(@),
               !.loc.cur.lastLine = line.marker,
               !.sess.branch = IF line.marker = "DONE" THEN th.sid ELSE @,
               !.loc.cur.rtype = CASE line.marker = "DONE" -> ResultPR
                                   [] line.marker = "RESULT" /\ line.text = "{type:text}" -> ResultText
                                   [] line.marker = "RESULT" /\ line.text = "{type:pr}" -> ResultPR
                                   [] OTHER -> @,
               !.loc.cur.out = IF line.marker = "" THEN @ + 1 ELSE @]

\* for logStream.Scan(): dispatchLogLine and the switch.  The sandbox pushes
\* the branch before it writes the DONE marker.
RoundLine(t) ==
    /\ At(t, "task", "scan")
    /\ Loc(t).stream # <<>>
    /\ LET line == Head(Loc(t).stream)
       IN /\ EmitEvent(t, DispatchLogLine(line).type, DispatchLogLine(line).data,
                       ScanLine(Th(t), line))
          /\ pushed' = IF line.marker = "DONE" THEN pushed \cup {Th(t).sid} ELSE pushed
    /\ UNCHANGED <<sessions, messages, busVars, containers, agentRuns, prs, calls, harnessVars, starts>>

\* sandbox.Wait: the exit code, or an error
RoundWait(t) ==
    /\ At(t, "task", "scan")
    /\ Loc(t).stream = <<>>
    /\ \/ \E code \in {0, 1} :
             threads' = [threads EXCEPT ![t].loc.cur.exit = code, ![t].pc = "after_round"]
       \/ threads' = [threads EXCEPT ![t] = StepFailed(@, "step failed: error waiting for sandbox")]
    /\ UNCHANGED <<storeVars, busVars, containers, agentRuns, prs, calls, harnessVars, taskVars>>

\* `if e.review == nil || plan == "" { break }`: where the loop goes after
\* verify
ReviewGate(th) == IF th.loc.plan THEN "emit_reviewing" ELSE "finalize"

\* a runSubTask that takes a failed round for one to verify and revise
AfterRoundIgnoringExit(th) ==
    LET x == [th EXCEPT !.loc.last = th.loc.cur]
    IN IF x.loc.cur.rtype = ResultText
       THEN [x EXCEPT !.pc = "finalize"]
       ELSE [x EXCEPT !.pc = "emit_verifying"]

\* runSubTask after a round has returned: the round becomes lastResult; a
\* non-zero exit code is an error, a text result ends the sub-task, every
\* other round is verified.
AfterRound(th) ==
    LET x == [th EXCEPT !.loc.last = th.loc.cur]
    IN IF x.loc.cur.exit # 0
       THEN StepFailed(x, "step failed: sandbox exited with code 1")
       ELSE IF x.loc.cur.rtype = ResultText
       THEN [x EXCEPT !.pc = "finalize"]
       ELSE [x EXCEPT !.pc = "emit_verifying"]

\* the container of the round before is stopped when a new round has returned
SubAfterRound(t) ==
    /\ At(t, "task", "after_round")
    /\ IF Loc(t).last.cid # "" /\ Loc(t).last.cid # Loc(t).cur.cid
       THEN StopContainer(Loc(t).last.cid)
       ELSE UNCHANGED <<containers, agentRuns>>
    /\ threads' = [threads EXCEPT ![t] = AfterRound(Th(t))]
    /\ UNCHANGED <<storeVars, busVars, prs, calls, harnessVars, taskVars>>

\* runVerify: the probes, the commands, verify.Verify and the event of the
\* outcome: no verdict (no commands, or the analysis failed), passed, failed
SubVerify(t) ==
    /\ At(t, "task", "verify")
    /\ \/ \E data \in {"No test/lint commands detected, skipping verify",
                       "Verify analysis failed, proceeding",
                       "Tests and linting passed"} :
             EmitEvent(t, "status", data, [Th(t) EXCEPT !.pc = ReviewGate(Th(t))])
       \/ EmitEvent(t, "status", "Tests or linting failed",
                    [Th(t) EXCEPT !.pc = "emit_verify_failed"])
    /\ UNCHANGED <<sessions, messages, busVars, containers, agentRuns, prs, calls, harnessVars, taskVars>>

\* "## Verify Failed": a revision round follows unless round >= maxRounds
SubEmitVerifyFailed(t) ==
    /\ At(t, "task", "emit_verify_failed")
    /\ EmitEvent(t, "output", "## Verify Failed",
                 IF Loc(t).round >= MaxRevisions
                 THEN [Th(t) EXCEPT !.pc = "emit_verify_max"]
                 ELSE [Th(t) EXCEPT !.loc.round = @ + 1, !.pc = "emit_revision"])
    /\ UNCHANGED <<sessions, messages, busVars, containers, agentRuns, prs, calls, harnessVars, taskVars>>

SubEmitVerifyMax(t) ==
    /\ At(t, "task", "emit_verify_max")
    /\ EmitEvent(t, "status", "Tests/lint failed but max revision rounds reached, proceeding",
                 [Th(t) EXCEPT !.pc = ReviewGate(Th(t))])
    /\ UNCHANGED <<sessions, messages, busVars, containers, agentRuns, prs, calls, harnessVars, taskVars>>

\* getDiffFromContainer, review.Review and the event of the outcome: no diff,
\* a failed review and an approval end the loop, a review that does not
\* approve goes on
SubReview(t) ==
    /\ At(t, "task", "review")
    /\ \/ \E data \in {"No diff found, skipping review", "Review failed, proceeding"} :
             EmitEvent(t, "status", data, [Th(t) EXCEPT !.pc = "finalize"])
       \/ EmitEvent(t, "output", "## Review", [Th(t) EXCEPT !.pc = "finalize"])
       \/ EmitEvent(t, "output", "## Review Feedback", [Th(t) EXCEPT !.pc = "not_approved"])
    /\ UNCHANGED <<sessions, messages, busVars, containers, agentRuns, prs, calls, harnessVars, taskVars>>

\* a loop that gives up one round early
NotApprovedOneRoundEarly(th) ==
    IF th.loc.round + 1 >= MaxRevisions
    THEN [th EXCEPT !.pc = "emit_review_max"]
    ELSE [th EXCEPT !.loc.round = @ + 1, !.pc = "emit_revision"]

\* After a review that does not approve: `if round >= maxRounds { break }`,
\* else the prompt is revised and the loop goes to round + 1.
NotApproved(th) ==
    IF th.loc.round >= MaxRevisions
    THEN [th EXCEPT !.pc = "emit_review_max"]
    ELSE [th EXCEPT !.loc.round = @ + 1, !.pc = "emit_revision"]

SubNotApproved(t) ==
    /\ At(t, "task", "not_approved")
    /\ threads' = [threads EXCEPT ![t] = NotApproved(@)]
    /\ UNCHANGED <<storeVars, busVars, containers, agentRuns, prs, calls, harnessVars, taskVars>>

\* a finalizeSession that takes no result for a text result
IsTextResultNever(last) == FALSE

\* `lastResult != nil && lastResult.resultType == model.ResultText`
IsTextResult(last) == last.cid # "" /\ last.rtype = ResultText

\* finalizeSession, text result: sess.Status = complete, sess.Result = the
\* text; store.UpdateSession(sess)
FinalizeText(t) ==
    /\ At(t, "task", "finalize")
    /\ IsTextResult(Loc(t).last)
    /\ LET sess == [Th(t).sess EXCEPT !.status = StatusComplete,
                       !.result = [NoResult EXCEPT !.type = ResultText,
                                      !.content = IF Loc(t).last.out > 0 THEN "output" ELSE ""]]
       IN /\ sessions' = UpdateSession(sess)
          /\ threads' = [threads EXCEPT ![t].sess = sess, ![t].pc = "emit_done_text"]
    /\ UNCHANGED <<messages, events, busVars, containers, agentRuns, prs, calls, harnessVars, taskVars>>

FinalizeEmitDoneText(t) ==
    /\ At(t, "task", "emit_done_text")
    /\ EmitEvent(t, "done", Th(t).sess.result.content, [Th(t) EXCEPT !.pc = "final_stop"])
    /\ UNCHANGED <<sessions, messages, busVars, containers, agentRuns, prs, calls, harnessVars, taskVars>>

\* finalizeSession, every other result type: "Creating pull request..."
FinalizeEmitCreating(t) ==
    /\ At(t, "task", "finalize")
    /\ ~IsTextResult(Loc(t).last)
    /\ EmitEvent(t, "status", "Creating pull request...", [Th(t) EXCEPT !.pc = "create_pr"])
    /\ UNCHANGED <<sessions, messages, busVars, containers, agentRuns, prs, calls, harnessVars, taskVars>>

\* git.GetDefaultBranch and git.CreatePR for sess.Branch: the provider opens
\* pull request Len(prs) + 1, or the call fails, the session is failed and
\* finalizeSession returns
FinalizeCreatePR(t) ==
    /\ At(t, "task", "create_pr")
    /\ \/ /\ prs' = Append(prs, Th(t).sess.branch)
          /\ threads' = [threads EXCEPT ![t].pc = "store_complete",
                ![t].sess.status = StatusComplete,
                ![t].sess.pr_url = PRUrl(Len(prs) + 1),
                ![t].sess.pr_number = Len(prs) + 1,
                ![t].sess.result = [NoResult EXCEPT !.type = ResultPR,
                                       !.pr_url = PRUrl(Len(prs) + 1),
                                       !.pr_number = Len(prs) + 1]]
       \/ /\ threads' = [threads EXCEPT ![t].err = "failed to create PR", ![t].pc = "fail",
                                        ![t].after = "done"]
          /\ UNCHANGED prs
    /\ UNCHANGED <<storeVars, busVars, containers, agentRuns, calls, harnessVars, taskVars>>

FinalizeEmitDone(t) ==
    /\ At(t, "task", "emit_done")
    /\ EmitEvent(t, "done", Th(t).sess.pr_url, [Th(t) EXCEPT !.pc = "final_stop"])
    /\ UNCHANGED <<sessions, messages, busVars, containers, agentRuns, prs, calls, harnessVars, taskVars>>

\* finalizeSession: sandbox.Stop(lastResult.containerID)
FinalizeStop(t) ==
    /\ At(t, "task", "final_stop")
    /\ IF Loc(t).last.cid # "" THEN StopContainer(Loc(t).last.cid)
       ELSE UNCHANGED <<containers, agentRuns>>
    /\ threads' = [threads EXCEPT ![t] = Done(@, "")]
    /\ UNCHANGED <<storeVars, busVars, prs, calls, harnessVars, taskVars>>

----------------------------------------------------------------------------
(* Engine.runSessionMultiStep: the steps run in one persistent container *)

\* What runSessionMultiStep does with an error that ends the session:
\* failSession, sandbox.Stop when the container runs, return.
MultiFailed(th, msg, after) == [th EXCEPT !.err = msg, !.pc = "fail", !.after = after]

\* "Starting persistent sandbox for multi-step task..."
MultiEmitStart(t) ==
    /\ At(t, "task", "m_emit_start")
    /\ EmitEvent(t, "status", "Starting persistent sandbox for multi-step task...",
                 [Th(t) EXCEPT !.loc.statuses = [j \in 1..Loc(t).n |-> "pending"], !.pc = "m_start"])
    /\ UNCHANGED <<sessions, messages, busVars, containers, agentRuns, prs, calls, harnessVars, taskVars>>

\* sandbox.Start (Persistent): the container runs, or the session is failed
MultiStart(t) ==
    /\ At(t, "task", "m_start")
    /\ \/ /\ starts < Len(ContainerIDs)
          /\ starts' = starts + 1
          /\ containers' = containers \cup {ContainerIDs[starts + 1]}
          /\ threads' = [threads EXCEPT
                ![t].sess.container_id = ContainerIDs[starts + 1],
                ![t].sess.status = StatusRunning,
                ![t].pc = "m_store_running"]
       \/ /\ threads' = [threads EXCEPT ![t] =
                MultiFailed(@, "failed to start persistent sandbox", "done")]
          /\ UNCHANGED <<containers, starts>>
    /\ UNCHANGED <<storeVars, busVars, agentRuns, prs, calls, harnessVars, pushed>>

\* sandbox.Exec(/setup.sh): a stream of lines, or the session is failed and
\* the container stopped
MultiExecSetup(t) ==
    /\ At(t, "task", "m_exec_setup")
    /\ \/ \E n \in 0..MaxLines :
             threads' = [threads EXCEPT ![t].lines = n, ![t].loc.i = 1,
                            ![t].pc = IF n = 0 THEN "m_emit_step" ELSE "m_scan_setup"]
       \/ threads' = [threads EXCEPT ![t] = MultiFailed(@, "failed to run setup", "m_stop")]
    /\ UNCHANGED <<storeVars, busVars, containers, agentRuns, prs, calls, harnessVars, taskVars>>

\* for setupStream.Scan() { dispatchLogLine }; after the last line the
\* progress file is added to .gitignore and the loop over the steps begins
MultiSetupLine(t) ==
    /\ At(t, "task", "m_scan_setup")
    /\ \E line \in LogLines :
          EmitEvent(t, DispatchLogLine(line).type, DispatchLogLine(line).data,
                    [Th(t) EXCEPT !.lines = @ - 1,
                                  !.pc = IF Th(t).lines = 1 THEN "m_emit_step" ELSE @])
    /\ UNCHANGED <<sessions, messages, busVars, containers, agentRuns, prs, calls, harnessVars, taskVars>>

\* the progress event, statuses[i] = running, writeProgressFile; every step
\* but the first is pre-validated
MultiEmitRunning(t) ==
    /\ At(t, "task", "m_emit_running")
    /\ EmitEvent(t, "progress", "running",
                 [Th(t) EXCEPT !.loc.statuses[Loc(t).i] = "running", !.loc.plan = FALSE,
                               !.pc = IF Loc(t).i > 1 THEN "m_emit_prevalidating"
                                      ELSE "m_emit_planning"])
    /\ UNCHANGED <<sessions, messages, busVars, containers, agentRuns, prs, calls, harnessVars, taskVars>>

\* checkpointSubTask: git add -A, and when something is staged git commit.
\* lastCheckpointHash is 0 for the empty string, else one more than the
\* number of checkpoint commits below HEAD. staged: git diff --cached finds
\* changes; cpErr: git add or git commit fails, and "" is returned.
checkpointSubTask(th, staged, cpErr) ==
    LET made == IF staged /\ ~cpErr THEN 1 ELSE 0
    IN  [commits |-> th.loc.commits + made,
         hash |-> IF cpErr THEN 0 ELSE th.loc.commits + made + 1]

\* What follows a self-correction that did not help: rollbackToCheckpoint
\* (git reset --hard) `if lastCheckpointHash != ""`, and after it
\* `if i > 0 { statuses[i-1].Status = "failed" }`
RolledBack(th) ==
    [th EXCEPT !.loc.resets = IF th.loc.hash # 0 THEN @ + 1 ELSE @,
               !.loc.statuses[th.loc.i - 1] = "failed"]

\* Where runSessionMultiStep goes on a verdict of runVerify: of the
\* pre-validation, of the re-check after a self-correction (a failure marks
\* the step before as failed), of the verification of the step's changes.
AfterVerify(th, failed) ==
    CASE th.loc.phase = "pre" ->
            [th EXCEPT !.pc = IF failed THEN "m_emit_prefailed" ELSE "m_emit_planning"]
      [] th.loc.phase = "recheck" ->
            IF failed
            THEN [RolledBack(th) EXCEPT !.pc = "m_emit_rollback"]
            ELSE [th EXCEPT !.pc = "m_emit_corrected"]
      [] OTHER ->
            [th EXCEPT !.pc = IF failed THEN "m_emit_verify_failed" ELSE "m_checkpoint"]

\* runVerify: the probes, the commands, verify.Verify and the event of the
\* outcome: no verdict (no commands, or the analysis failed), passed, failed
MultiVerify(t) ==
    /\ At(t, "task", "m_verify")
    /\ \/ \E data \in {"No test/lint commands detected, skipping verify",
                       "Verify analysis failed, proceeding",
                       "Tests and linting passed"} :
             EmitEvent(t, "status", data, AfterVerify(Th(t), FALSE))
       \/ EmitEvent(t, "status", "Tests or linting failed", AfterVerify(Th(t), TRUE))
    /\ UNCHANGED <<sessions, messages, busVars, containers, agentRuns, prs, calls, harnessVars, taskVars>>

\* a loop that goes on after a failed agent run without marking the step
StepRunFailedUnmarked(th) ==
    [th EXCEPT !.pc = "m_emit_step_failed"]

\* a step whose failed agent run fails the session, as on the single-task path
StepRunFailsSession(th) == MultiFailed(th, "step failed: agent exec failed", "m_stop")

\* `if runErr != nil`: statuses[i] = failed, and the two events that follow
\* before `continue`
StepRunFailed(th) ==
    [th EXCEPT !.loc.statuses[th.loc.i] = "failed", !.pc = "m_emit_step_failed"]

\* a loop in which a revision that fails marks the step failed, as a failed
\* agent run of the step does
AfterAgentRevisionFatal(th, failed) ==
    CASE th.loc.phase = "fix" ->
            IF failed
            THEN [RolledBack(th) EXCEPT !.pc = "m_emit_fix_failed"]
            ELSE [th EXCEPT !.loc.phase = "recheck", !.pc = "m_emit_verifying"]
      [] th.loc.phase = "run" ->
            IF failed THEN StepRunFailed(th) ELSE [th EXCEPT !.pc = "m_emit_postverify"]
      [] OTHER -> IF failed THEN StepRunFailed(th) ELSE [th EXCEPT !.pc = "m_checkpoint"]

\* Where runSessionMultiStep goes when runAgentInContainer returns: from the
\* self-correction (an error marks the step before as failed, else the
\* re-check follows), from the step's agent run, from the revision after a
\* failed verification (whose result is dropped).
AfterAgent(th, failed) ==
    CASE th.loc.phase = "fix" ->
            IF failed
            THEN [RolledBack(th) EXCEPT !.pc = "m_emit_fix_failed"]
            ELSE [th EXCEPT !.loc.phase = "recheck", !.pc = "m_emit_verifying"]
      [] th.loc.phase = "run" ->
            IF failed THEN StepRunFailed(th) ELSE [th EXCEPT !.pc = "m_emit_postverify"]
      [] OTHER -> [th EXCEPT !.pc = "m_checkpoint"]

\* runAgentInContainer: sandbox.Exec of the agent: a stream of lines, or an
\* error
MultiAgentExec(t) ==
    /\ At(t, "task", "m_agent_exec")
    /\ \/ \E n \in 0..MaxLines :
             threads' = [threads EXCEPT ![t] =
                IF n = 0 THEN AfterAgent(@, FALSE)
                ELSE [@ EXCEPT !.lines = n, !.pc = "m_agent_scan"]]
       \/ threads' = [threads EXCEPT ![t] = AfterAgent(@, TRUE)]
    /\ UNCHANGED <<storeVars, busVars, containers, agentRuns, prs, calls, harnessVars, taskVars>>

\* for agentStream.Scan() { emitEvent("output", line) }
MultiAgentLine(t) ==
    /\ At(t, "task", "m_agent_scan")
    /\ EmitEvent(t, "output", "agent line",
                 IF Th(t).lines = 1 THEN AfterAgent([Th(t) EXCEPT !.lines = 0], FALSE)
                 ELSE [Th(t) EXCEPT !.lines = @ - 1])
    /\ UNCHANGED <<sessions, messages, busVars, containers, agentRuns, prs, calls, harnessVars, taskVars>>

\* plan.Execute: a plan and its event, or no plan and no event
MultiPlan(t) ==
    /\ At(t, "task", "m_plan")
    /\ \/ EmitEvent(t, "output", "## Plan",
                    [Th(t) EXCEPT !.loc.plan = TRUE, !.pc = "m_emit_running_agent"])
       \/ /\ threads' = [threads EXCEPT ![t].loc.plan = FALSE, ![t].pc = "m_emit_running_agent"]
          /\ UNCHANGED events
    /\ UNCHANGED <<sessions, messages, busVars, containers, agentRuns, prs, calls, harnessVars, taskVars>>

\* a loop that pushes after the last step whether or not a step changed code
NextStepAlwaysPush(th) ==
    IF th.loc.i < th.loc.n
    THEN [th EXCEPT !.loc.i = @ + 1, !.pc = "m_emit_step"]
    ELSE [th EXCEPT !.pc = "m_emit_pushing"]

\* The end of a step: the next step, or after the last one the push when
\* any step changed code, else the text result.
NextStep(th) ==
    IF th.loc.i < th.loc.n
    THEN [th EXCEPT !.loc.i = @ + 1, !.pc = "m_emit_step"]
    ELSE [th EXCEPT !.pc = IF th.loc.changed THEN "m_emit_pushing" ELSE "m_store_text"]

\* the progress event of a failed step, and `continue`
MultiEmitProgressFailed(t) ==
    /\ At(t, "task", "m_emit_progress_failed")
    /\ EmitEvent(t, "progress", "failed", NextStep(Th(t)))
    /\ UNCHANGED <<sessions, messages, busVars, containers, agentRuns, prs, calls, harnessVars, taskVars>>

\* The two checkpoints of a step. After the step's agent run:
\* hasUncommittedChanges, checkpointSubTask (an error is logged, else
\* lastCheckpointHash = hash), statuses[i] = completed, writeProgressFile and
\* the progress event. After "Self-correction succeeded": checkpointSubTask
\* and `if cpErr == nil && hash != "" { lastCheckpointHash = hash }`.
MultiCheckpoint(t) ==
    /\ \E staged \in BOOLEAN, cpErr \in BOOLEAN :
          LET cp == checkpointSubTask(Th(t), staged, cpErr)
              kept == [Th(t) EXCEPT !.loc.commits = cp.commits,
                                    !.loc.hash = IF cpErr THEN @ ELSE cp.hash]
          IN  /\ cpErr => staged
              /\ \/ /\ At(t, "task", "m_checkpoint")
                    /\ EmitEvent(t, "progress", "completed",
                                 NextStep([kept EXCEPT !.loc.statuses[Loc(t).i] = "completed",
                                                       !.loc.changed = @ \/ staged]))
                 \/ /\ At(t, "task", "m_fix_checkpoint")
                    /\ threads' = [threads EXCEPT ![t] = [kept EXCEPT !.pc = "m_emit_planning"]]
                    /\ UNCHANGED events
    /\ UNCHANGED <<sessions, messages, busVars, containers, agentRuns, prs, calls, harnessVars, taskVars>>

\* pushBranch: git push -u origin <branch>, or the session is failed and the
\* container stopped
MultiPush(t) ==
    /\ At(t, "task", "m_push")
    /\ \/ /\ pushed' = pushed \cup {Th(t).sess.branch}
          /\ threads' = [threads EXCEPT ![t].pc = "m_emit_creating"]
       \/ /\ threads' = [threads EXCEPT ![t] = MultiFailed(@, "failed to push branch", "m_stop")]
          /\ UNCHANGED pushed
    /\ UNCHANGED <<storeVars, busVars, containers, agentRuns, prs, calls, harnessVars, starts>>

\* git.CreatePR: pull request Len(prs) + 1 for the branch, or the session is
\* failed and the container stopped
MultiCreatePR(t) ==
    /\ At(t, "task", "m_create_pr")
    /\ \/ /\ prs' = Append(prs, Th(t).sess.branch)
          /\ threads' = [threads EXCEPT ![t].pc = "m_store_complete",
                ![t].sess.status = StatusComplete,
                ![t].sess.pr_url = PRUrl(Len(prs) + 1),
                ![t].sess.pr_number = Len(prs) + 1,
                ![t].sess.result = [NoResult EXCEPT !.type = ResultPR,
                                       !.pr_url = PRUrl(Len(prs) + 1),
                                       !.pr_number = Len(prs) + 1]]
       \/ /\ threads' = [threads EXCEPT ![t] = MultiFailed(@, "failed to create PR", "m_stop")]
          /\ UNCHANGED prs
    /\ UNCHANGED <<storeVars, busVars, containers, agentRuns, calls, harnessVars, taskVars>>

MultiEmitDone(t) ==
    /\ At(t, "task", "m_emit_done")
    /\ EmitEvent(t, "done", Th(t).sess.pr_url, [Th(t) EXCEPT !.pc = "m_stop"])
    /\ UNCHANGED <<sessions, messages, busVars, containers, agentRuns, prs, calls, harnessVars, taskVars>>

\* no step changed code: sess.Status = complete, sess.Result = the text;
\* store.UpdateSession(sess)
MultiStoreText(t) ==
    /\ At(t, "task", "m_store_text")
    /\ LET sess == [Th(t).sess EXCEPT !.status = StatusComplete,
                       !.result = [NoResult EXCEPT !.type = ResultText,
                                      !.content = "All steps completed without code changes."]]
       IN /\ sessions' = UpdateSession(sess)
          /\ threads' = [threads EXCEPT ![t].sess = sess, ![t].pc = "m_emit_done_text"]
    /\ UNCHANGED <<messages, events, busVars, containers, agentRuns, prs, calls, harnessVars, taskVars>>

\* sandbox.Stop(containerID)
MultiStop(t) ==
    /\ At(t, "task", "m_stop")
    /\ StopContainer(Th(t).sess.container_id)
    /\ threads' = [threads EXCEPT ![t] = Done(@, "")]
    /\ UNCHANGED <<storeVars, busVars, prs, calls, harnessVars, taskVars>>

----------------------------------------------------------------------------
(* Engine.runSession: the worker of a task session *)

\* runSession up to the choice of the path
RunSessionStep(t) ==
    \/ TaskEmit(t) \/ TaskStore(t)
    \/ TaskGetSession(t) \/ TaskIndexRepo(t)
    \/ TaskDecompose(t)

\* runSession and runSessionSingleTask
TaskStep(t) ==
    \/ RunSessionStep(t)
    \/ SubPlan(t)
    \/ RoundStart(t)
    \/ RoundStreamLogs(t) \/ RoundLine(t) \/ RoundWait(t)
    \/ SubAfterRound(t) \/ SubVerify(t)
    \/ SubEmitVerifyFailed(t) \/ SubEmitVerifyMax(t)
    \/ SubReview(t) \/ SubNotApproved(t)
    \/ FinalizeText(t) \/ FinalizeEmitDoneText(t) \/ FinalizeEmitCreating(t)
    \/ FinalizeCreatePR(t) \/ FinalizeEmitDone(t)
    \/ FinalizeStop(t)

TaskNext ==
    \/ \E s \in TaskSessions : CreateAndRunSession(s)
    \/ \E t \in DOMAIN threads :
          \/ TaskStep(t)
          \/ FailSessionUpdate(t) \/ FailSessionEmit(t)
          \/ EmitEventPublish(t)

\* The task sessions whose decomposition gives one sub-task: a session with
\* more sub-tasks is left at the head of runSessionMultiStep.
SpecTask == Init /\ [][TaskNext]_vars

\* the steps of a session whose agent output is followed line by line: an
\* agent that prints in a later step is left at its first line
MaxOutputSteps == 1

MultiNext ==
    \/ \E s \in TaskSessions : CreateAndRunSession(s)
    \/ \E t \in DOMAIN threads :
          \/ RunSessionStep(t)
          \/ MultiEmitStart(t) \/ MultiStart(t)
          \/ MultiExecSetup(t) \/ MultiSetupLine(t) \/ MultiEmitRunning(t)
          \/ MultiVerify(t) \/ MultiAgentExec(t) \/ MultiPlan(t)
          \/ (Loc(t).i <= MaxOutputSteps /\ MultiAgentLine(t))
          \/ MultiEmitProgressFailed(t) \/ MultiCheckpoint(t)
          \/ MultiPush(t) \/ MultiCreatePR(t)
          \/ MultiEmitDone(t) \/ MultiStoreText(t)
          \/ MultiStop(t)
          \/ FailSessionUpdate(t) \/ FailSessionEmit(t)
          \/ EmitEventPublish(t)

\* The task sessions whose decomposition gives several sub-tasks: a session
\* with one sub-task is left at the head of runSessionSingleTask.
SpecMulti == Init /\ [][MultiNext]_vars

----------------------------------------------------------------------------
(* dispatcher.ChainEvaluator *)

\* model.MaxChainDepth
MaxChainDepth == 3

\* chain depths of the sessions the harness evaluates
MaxDepth == 5

\* maxDepth arguments the harness passes to NewChainEvaluator
MaxDepthArg == 4

\* calls a run of the ChainEvaluator harness makes
MaxEvaluates == 2

\* What llm.Complete gives the dispatcher: an error, text that is no decision,
\* or a decision of one of the three actions, with or without a repo.
DispatchAnswers ==
    {[err |-> TRUE, json |-> FALSE, action |-> "", repo |-> ""],
     [err |-> FALSE, json |-> FALSE, action |-> "", repo |-> ""]}
    \cup {[err |-> FALSE, json |-> TRUE, action |-> a, repo |-> r] :
             a \in {"spawn", "reply", "ignore"}, r \in {"", "org/other"}}

\* NewChainEvaluator: maxDepth <= 0 means model.MaxChainDepth
NewChainEvaluator(maxDepth) == IF maxDepth <= 0 THEN MaxChainDepth ELSE maxDepth

\* Dispatcher.Dispatch: the LLM's decision, ignore when the answer does not
\* parse, an error when the LLM call fails
Dispatch(answer) ==
    IF answer.err THEN [decision |-> NoDecision, err |-> "dispatcher LLM call failed"]
    ELSE IF ~answer.json THEN [decision |-> [action |-> "ignore", repo |-> ""], err |-> ""]
    ELSE [decision |-> [action |-> answer.action, repo |-> answer.repo], err |-> ""]

\* Evaluate with a session at the limit still passed on to the dispatcher
EvaluateAboveLimit(maxDepth, sess, answer) ==
    IF sess.chain_depth > maxDepth
    THEN [decision |-> NoDecision, err |-> "chain depth limit reached", dispatched |-> FALSE]
    ELSE LET d == Dispatch(answer)
         IN IF d.err # "" THEN [decision |-> NoDecision, err |-> d.err, dispatched |-> TRUE]
            ELSE IF d.decision.action # "spawn"
            THEN [decision |-> NoDecision, err |-> "", dispatched |-> TRUE]
            ELSE [decision |-> [d.decision EXCEPT !.repo = IF @ = "" THEN sess.repo ELSE @],
                  err |-> "", dispatched |-> TRUE]

\* ChainEvaluator.Evaluate: the error at the depth limit, else the
\* dispatcher's spawn decision (with the session's repo when it names none),
\* nil for every other decision.  dispatched tells whether the LLM was asked.
Evaluate(maxDepth, sess, answer) ==
    IF sess.chain_depth >= maxDepth
    THEN [decision |-> NoDecision, err |-> "chain depth limit reached", dispatched |-> FALSE]
    ELSE LET d == Dispatch(answer)
         IN IF d.err # "" THEN [decision |-> NoDecision, err |-> d.err, dispatched |-> TRUE]
            ELSE IF d.decision.action # "spawn"
            THEN [decision |-> NoDecision, err |-> "", dispatched |-> TRUE]
            ELSE [decision |-> [d.decision EXCEPT !.repo = IF @ = "" THEN sess.repo ELSE @],
                  err |-> "", dispatched |-> TRUE]

\* harness: an evaluator is built and asked about a completed session
ChainEvaluate(arg, depth, answer) ==
    /\ evaluated.calls < MaxEvaluates
    /\ evaluated' = [calls |-> evaluated.calls + 1, maxDepth |-> NewChainEvaluator(arg),
                     depth |-> depth, answer |-> answer,
                     out |-> Evaluate(NewChainEvaluator(arg),
                                      [chain_depth |-> depth, repo |-> "org/app"], answer)]
    /\ UNCHANGED <<storeVars, busVars, storeHarness, busHarness, failHarness, decomposed,
                   summaries, recalled, engineVars, taskVars>>

ChainNext == \E arg \in -1..MaxDepthArg, depth \in 0..MaxDepth, answer \in DispatchAnswers :
                ChainEvaluate(arg, depth, answer)

SpecChain == Init /\ [][ChainNext]_vars

----------------------------------------------------------------------------
(* Session status (Engine, Server.handleStopSession) *)

\* C1: once a session's stored status is complete or error, no step changes
\* the status to another value.
C1_TerminalStatusNeverChanges ==
    [][\A s \in ChatSessions :
          sessions[s].status \in Terminal =>
              sessions'[s].status = sessions[s].status]_vars

\* the columns of a row that UpdateSession writes, but for updated_at
Fields(row) ==
    <<row.status, row.error, row.pr_url, row.pr_number, row.branch, row.container_id>>

\* C2: once a session's status is complete or error, no step changes the
\* status, the error string, the PR url or number, the branch or the
\* container id of its row.
C2_TerminalRowNeverWritten ==
    [][\A s \in ChatSessions :
          sessions[s].status \in Terminal =>
              Fields(sessions'[s]) = Fields(sessions[s])]_vars

\* C3: under any interleaving of SendChatMessage calls, at most one agent run
\* executes in a session's container at any time.
C3_AtMostOneAgentRun == \A s \in ChatSessions : agentRuns[s] <= 1

\* C4: with ChatMaxMessages = k a session never holds more than k user
\* messages: a SendChatMessage after k accepted ones is rejected.
C4_AtMostKUserMessages ==
    \A s \in ChatSessions : UserMsgCount(GetMessages(s)) <= ChatMaxMessages

\* C5: once failSession has been called twice on a session and both calls
\* have returned, the status is error and the error string is the message of
\* the first call.
C5_FailSessionKeepsFirstMessage ==
    \A s \in Sessions :
        (Len(failCalls[s]) >= 2 /\ \A t \in DOMAIN threads : ~Live(t)) =>
            /\ sessions[s].status = StatusError
            /\ sessions[s].error = failCalls[s][1]

\* the steps of the walk pending -> idle <-> running -> {complete, error},
\* read with complete and error open to every status that is not terminal
WalkSteps ==
    {<<StatusPending, StatusIdle>>, <<StatusIdle, StatusRunning>>,
     <<StatusRunning, StatusIdle>>}
    \cup ({StatusPending, StatusIdle, StatusRunning} \X Terminal)

\* C6: every write of a chat session's row that changes the stored status
\* takes a step of the walk, and no write stores idle over idle.
C6_ChatStatusWalk ==
    [][\A s \in ChatSessions :
          (sessions[s] # NoSession /\ sessions'[s] # sessions[s]) =>
              IF sessions'[s].status = sessions[s].status
              THEN sessions[s].status # StatusIdle
              ELSE <<sessions[s].status, sessions'[s].status>> \in WalkSteps]_vars

\* C7: the events a subscriber of a session holds, which it was sent in the
\* order of their Publish, are in the order of their Store ids.
C7_PublishOrderIsStoreOrder ==
    \A c \in DOMAIN chans :
        \A i, j \in 1..Len(chans[c].buf) :
            i < j => chans[c].buf[i].id < chans[c].buf[j].id

----------------------------------------------------------------------------
(* Event ids (Store.AddEvent, migrate) *)

\* rows i < j are consecutive events of one session
ConsecutiveInSession(i, j) ==
    /\ i < j
    /\ events[i].session_id = events[j].session_id
    /\ \A k \in (i+1)..(j-1) : events[k].session_id # events[i].session_id

\* C8 as stated: within a session the ids increase in append order and are
\* dense, that is, two consecutive events of one session have consecutive
\* ids, however the appends of several sessions interleave.
C8_DenseWithinSession ==
    \A i, j \in 1..Len(events) :
        ConsecutiveInSession(i, j) => events[j].id = events[i].id + 1

\* C8 amended: within a session the ids strictly increase in append order;
\* the ids come from one sequence shared by all sessions, so no two rows of
\* the table share an id and every id skipped between two consecutive events
\* of a session is the id of an event of another session.
C8_IdsIncreasingSharedSequence ==
    /\ \A i, j \in 1..Len(events) :
          (i < j /\ events[i].session_id = events[j].session_id)
              => events[i].id < events[j].id
    /\ \A i, j \in 1..Len(events) : events[i].id = events[j].id => i = j
    /\ \A i, j \in 1..Len(events) :
          ConsecutiveInSession(i, j) =>
              \A n \in (events[i].id + 1)..(events[j].id - 1) :
                  \E k \in 1..Len(events) :
                      /\ events[k].id = n
                      /\ events[k].session_id # events[i].session_id

\* Two sessions' appends interleaved: a session has two consecutive events
\* with another session's event between them.
C8_Witness ==
    \E i, j \in 1..Len(events) :
        /\ ConsecutiveInSession(i, j)
        /\ j > i + 1
        /\ \E k \in 1..Len(events) : ConsecutiveInSession(k, i)

\* C9: GetEvents(sessionId, afterId) returns exactly the rows of that session
\* whose id is greater than afterId, each once, in ascending id order, and
\* no row of another session.
C9_GetEventsExact ==
    LET q    == lastQuery
        rows == {q.table[i] : i \in 1..Len(q.table)}
        want == {r \in rows : r.session_id = q.session_id /\ r.id > q.after}
    IN  /\ {q.result[i] : i \in 1..Len(q.result)} = want
        /\ \A i, j \in 1..Len(q.result) : i < j => q.result[i].id < q.result[j].id

\* A resume query (afterId > 0) that skipped an earlier event of the session,
\* returned two later ones, and left out a later event of another session.
C9_Witness ==
    /\ lastQuery.after > 0
    /\ Len(lastQuery.result) >= 2
    /\ \E i, j \in 1..Len(lastQuery.table) :
          /\ lastQuery.table[i].session_id = lastQuery.session_id
          /\ lastQuery.table[i].id <= lastQuery.after
          /\ lastQuery.table[j].session_id # lastQuery.session_id
          /\ lastQuery.table[j].id > lastQuery.after

----------------------------------------------------------------------------
(* Bus back-pressure (InMemoryBus.Publish) *)

\* a Publish call on session s can return from the current state
PublishReturns(s) == ENABLED Publish(s, BusEvent(s, 0))

\* a step that is one Publish call on session s
IsPublishStep(s) == pubCount'[s] = pubCount[s] + 1

\* C10: Publish never waits for a subscriber, whatever the buffers hold; a
\* Publish that finds a subscriber's buffer full (64 undelivered events)
\* leaves that buffer as it is, so the event is dropped for that subscriber;
\* a Publish that finds room, as after the subscriber drained, queues the
\* event last in the buffer.
C10_PublishDropsWhenFull ==
    /\ [](\A s \in Sessions : PublishReturns(s))
    /\ [][\A s \in Sessions : IsPublishStep(s) =>
            \A c \in Range(subs[s]) :
                IF Len(chans[c].buf) = BufferCap
                THEN chans'[c].buf = chans[c].buf
                ELSE chans'[c].buf = Append(chans[c].buf, BusEvent(s, pubCount'[s]))
         ]_vars

\* A session with a single subscriber whose buffer was full when an event was
\* published, so that the event is missing from it, and which after reading
\* received a later event.
C10_Witness ==
    \E s \in Sessions :
        /\ Len(subs[s]) = 1
        /\ LET buf == chans[subs[s][1]].buf
           IN \E i \in 1..(Len(buf) - 1) :
                 /\ buf[i].data = BufferCap
                 /\ buf[i+1].data = BufferCap + 2

----------------------------------------------------------------------------
(* Unsubscribe (InMemoryBus.Unsubscribe) *)

\* C11: a channel that leaves a session's registry is closed in the same
\* step, a closed channel is registered for no session, and no Publish adds
\* an event to a closed channel.
C11_UnsubscribeStopsDelivery ==
    /\ [](\A c \in DOMAIN chans :
            chans[c].closed => \A s \in Sessions : c \notin Range(subs[s]))
    /\ [][/\ \A s \in Sessions : \A c \in Range(subs[s]) :
               c \notin Range(subs'[s]) => chans'[c].closed
          /\ pubCount' # pubCount =>
               \A c \in DOMAIN chans : chans[c].closed => chans'[c] = chans[c]
         ]_vars

\* A channel that was unsubscribed after it had received an event of its
\* session, and whose session has had a later Publish that found every
\* buffer with room.
C11_Witness ==
    \E c \in DOMAIN chans :
        /\ chans[c].closed
        /\ chans[c].buf # <<>>
        /\ bursts = 0
        /\ LET last == chans[c].buf[Len(chans[c].buf)]
           IN last.data < pubCount[last.session_id]

----------------------------------------------------------------------------
(* Decomposition and chains *)

C14_DepthLimitRefused ==
    (evaluated.calls > 0 /\ evaluated.depth >= evaluated.maxDepth) =>
        /\ evaluated.out.err = "chain depth limit reached"
        /\ evaluated.out.decision = NoDecision
        /\ ~evaluated.out.dispatched

C14_Witness ==
    /\ evaluated.calls > 0
    /\ evaluated.depth = evaluated.maxDepth
    /\ evaluated.answer.json /\ evaluated.answer.action = "spawn"
    /\ evaluated.out.err # ""
    /\ evaluated.out.decision.action # "spawn"

----------------------------------------------------------------------------
(* Task sessions: the single-task path *)

\* the workers of task sessions on the single-task path
SingleTask(t) == Th(t).kind = "task" /\ Loc(t).n = 1

\* C12: with MaxRevisions = r a sub-task never starts more than r+1
\* containers; round k runs in the k+1st container; a review that does not
\* approve is followed by a further round while fewer than r+1 rounds have
\* been started, and ends the loop exactly when r+1 have.
C12_RoundsUpToMaxRevisions ==
    \A t \in DOMAIN threads : SingleTask(t) =>
        /\ starts <= MaxRevisions + 1
        /\ Loc(t).round <= MaxRevisions
        /\ Th(t).pc \in {"store_running", "emit_started", "stream", "scan", "after_round",
                         "emit_verifying", "verify", "emit_verify_failed", "emit_reviewing",
                         "review", "not_approved"} => starts = Loc(t).round + 1
        /\ Th(t).pc = "emit_revision" => starts = Loc(t).round /\ starts <= MaxRevisions
        /\ Th(t).pc = "emit_review_max" => starts = MaxRevisions + 1

C12_Witness ==
    \E t \in DOMAIN threads :
        /\ SingleTask(t)
        /\ At(t, "task", "emit_review_max")
        /\ starts = MaxRevisions + 1
        /\ Cardinality({i \in 1..Len(events) : events[i].data = "## Review Feedback"})
              = MaxRevisions + 1

ExitMsg == "step failed: sandbox exited with code 1"

\* C15: on the single-task path a round that exits with a non-zero code is
\* followed by failSession and by nothing else: no verify, no review, no
\* further container; the session is stored with status error and the exit
\* code as its error, and stays so.
C15_NonZeroExitFailsSession ==
    /\ [][\A t \in DOMAIN threads :
            (SingleTask(t) /\ At(t, "task", "after_round") /\ Loc(t).cur.exit # 0
               /\ threads'[t] # threads[t])
            => threads'[t].pc = "fail" /\ threads'[t].err = ExitMsg /\ starts' = starts]_vars
    /\ [](\A t \in DOMAIN threads :
            (Th(t).kind = "task" /\ Th(t).err = ExitMsg) => Th(t).pc \in {"fail", "fail_emit", "done"})
    /\ [](\A s \in TaskSessions : sessions[s].error = ExitMsg =>
            /\ sessions[s].status = StatusError
            /\ sessions[s].result = NoResult
            /\ \A t \in DOMAIN threads : Th(t).pc \in {"fail_emit", "done"})
    /\ [][\A s \in TaskSessions : sessions[s].error = ExitMsg => starts' = starts]_vars

C15_Witness ==
    \E s \in TaskSessions :
        /\ sessions[s].status = StatusError
        /\ sessions[s].error = ExitMsg
        /\ starts = MaxRevisions + 1
        /\ \A t \in DOMAIN threads : ~Live(t)

\* C16: on the single-task path a round that reports text and exits 0 goes
\* straight to finalizeSession, which stores the session complete with a
\* text result; a session with a text result is complete, has no PR, and no
\* PR was ever created for its branch.
C16_TextResultIsFinal ==
    /\ [][\A t \in DOMAIN threads :
            (SingleTask(t) /\ At(t, "task", "after_round") /\ Loc(t).cur.exit = 0
               /\ Loc(t).cur.rtype = ResultText /\ threads'[t] # threads[t])
            => threads'[t].pc = "finalize" /\ starts' = starts]_vars
    /\ [][\A t \in DOMAIN threads :
            (SingleTask(t) /\ At(t, "task", "finalize") /\ Loc(t).last.rtype = ResultText
               /\ threads'[t] # threads[t])
            => /\ sessions'[Th(t).sid].status = StatusComplete
               /\ sessions'[Th(t).sid].result.type = ResultText
               /\ prs' = prs]_vars
    /\ [](\A s \in TaskSessions : sessions[s].result.type = ResultText =>
            /\ sessions[s].status = StatusComplete
            /\ sessions[s].pr_url = "" /\ sessions[s].pr_number = 0
            /\ \A i \in 1..Len(prs) : prs[i] # sessions[s].branch)
    /\ [][\A s \in TaskSessions : sessions[s].result.type = ResultText =>
            starts' = starts /\ prs' = prs]_vars

C16_Witness ==
    \E s \in TaskSessions :
        /\ sessions[s].status = StatusComplete
        /\ sessions[s].result.type = ResultText
        /\ sessions[s].result.content # ""
        /\ starts = MaxRevisions + 1
        /\ containers = {}
        /\ \A t \in DOMAIN threads : ~Live(t)

\* C17: a stored session whose Result.Type is pr has a PR url and a PR number
\* in its result, and its branch had been pushed when the PR was created.
C17_PRResultHasPushedBranch ==
    /\ [](\A s \in TaskSessions : sessions[s].result.type = ResultPR =>
            /\ sessions[s].result.pr_url # "" /\ sessions[s].result.pr_number > 0
            /\ sessions[s].branch \in pushed)
    /\ [][prs' # prs => prs'[Len(prs')] \in pushed]_vars

----------------------------------------------------------------------------
(* Task sessions: the multi-step path *)

\* the errors runSessionMultiStep hands to failSession
MultiErrors == {"failed to start persistent sandbox", "failed to run setup",
                "failed to push branch", "failed to create PR"}

\* C20: on the multi-step path the agent run of a step either streams its
\* lines, goes on to the verification, or fails; a failure changes nothing
\* but the status of that step, which becomes failed, is followed by the two
\* events of the failure and then by the next step (after the last step by
\* the finalisation), and the session is never stored with status error
\* because of it.
C20_StepFailureIsNotFatal ==
    /\ [][\A t \in DOMAIN threads :
            (At(t, "task", "m_agent_exec") /\ Loc(t).phase = "run" /\ threads'[t] # threads[t])
            => /\ threads'[t].pc \in {"m_agent_scan", "m_emit_postverify", "m_emit_step_failed"}
               /\ threads'[t].pc = "m_emit_step_failed" =>
                     /\ threads'[t].loc.statuses = [Loc(t).statuses EXCEPT ![Loc(t).i] = "failed"]
                     /\ threads'[t].sess = Th(t).sess
                     /\ threads'[t].err = ""
                     /\ sessions' = sessions /\ containers' = containers]_vars
    /\ [][\A t \in DOMAIN threads :
            (At(t, "task", "m_emit_step_failed") /\ threads'[t] # threads[t])
            => threads'[t].pc = "m_emit_progress_failed" /\ sessions' = sessions]_vars
    /\ [][\A t \in DOMAIN threads :
            (At(t, "task", "m_emit_progress_failed") /\ threads'[t] # threads[t])
            => /\ sessions' = sessions
               /\ threads'[t].loc.statuses = Loc(t).statuses
               /\ IF Loc(t).i < Loc(t).n
                  THEN threads'[t].pc = "m_emit_step" /\ threads'[t].loc.i = Loc(t).i + 1
                  ELSE threads'[t].pc \in {"m_emit_pushing", "m_store_text"}]_vars
    /\ [](\A t \in DOMAIN threads :
            Th(t).pc \in {"m_emit_step_failed", "m_emit_progress_failed"} =>
                sessions[Th(t).sid].status = StatusRunning)
    /\ [](\A s \in TaskSessions :
            sessions[s].status = StatusError => sessions[s].error \in MultiErrors)

\* the first step failed, the second was run and completed, and the session
\* is complete with a pull request
C20_Witness ==
    \E s \in TaskSessions :
        /\ sessions[s].status = StatusComplete
        /\ sessions[s].result.type = ResultPR
        /\ containers = {}
        /\ \E i, j \in 1..Len(events) :
              /\ i < j
              /\ events[i].session_id = s /\ events[i].type = "status"
              /\ events[i].data = "Step failed: agent exec failed"
              /\ events[j].session_id = s /\ events[j].type = "progress"
              /\ events[j].data = "completed"

----------------------------------------------------------------------------
(* Chat sessions: the pull request and the idle reaper *)

\* C18: the write that ends a successful CreatePRFromChat stores the session
\* with status complete and with a result of type pr that carries the url
\* and the number of the pull request just created.
C18_ChatPRStoresResult ==
    [][\A t \in DOMAIN threads :
          (At(t, "pr", "set_complete") /\ threads'[t] # threads[t])
          => LET row == sessions'[Th(t).sid]
             IN /\ row.status = StatusComplete
                /\ row.pr_url = Th(t).sess.pr_url /\ row.pr_url # ""
                /\ row.pr_number = Th(t).sess.pr_number /\ row.pr_number > 0
                /\ row.result.type = ResultPR
                /\ row.result.pr_url = row.pr_url
                /\ row.result.pr_number = row.pr_number]_vars

TimedOut == "session timed out due to inactivity"

\* C19: the reaper takes the rows a tick found expired one after the other:
\* for each it stops the container of the row, stores the row with status
\* error and the error "session timed out due to inactivity", and appends a
\* status event that mentions the idle timeout; it goes on until no expired
\* row is left.
C19_ReaperStopsIdleSessions ==
    /\ [][\A t \in DOMAIN threads :
            (At(t, "reaper", "next") /\ threads'[t] # threads[t])
            => /\ threads'[t].sess \in Th(t).todo
               /\ threads'[t].todo = Th(t).todo \ {threads'[t].sess}
               /\ threads'[t].sess.container_id \notin containers'
               /\ threads'[t].pc = "update"]_vars
    /\ [][\A t \in DOMAIN threads :
            (At(t, "reaper", "update") /\ threads'[t] # threads[t])
            => /\ sessions'[Th(t).sid].status = StatusError
               /\ sessions'[Th(t).sid].error = TimedOut
               /\ threads'[t].todo = Th(t).todo
               /\ threads'[t].pc = "emit"]_vars
    /\ [][\A t \in DOMAIN threads :
            (At(t, "reaper", "emit") /\ threads'[t] # threads[t])
            => /\ Len(events') = Len(events) + 1
               /\ events'[Len(events')].session_id = Th(t).sid
               /\ events'[Len(events')].type = "status"
               /\ events'[Len(events')].data = "Session stopped (idle timeout)"
               /\ IF Th(t).todo = {} THEN threads'[t].pc = "done"
                  ELSE threads'[t].pc = "next" /\ threads'[t].todo = Th(t).todo]_vars

\* one tick found two sessions expired; both are stored timed out, each has
\* its event, and no container is left running
C19_Witness ==
    /\ \A s \in Sessions :
          /\ sessions[s].status = StatusError /\ sessions[s].error = TimedOut
          /\ \E i \in 1..Len(events) :
                /\ events[i].session_id = s
                /\ events[i].data = "Session stopped (idle timeout)"
    /\ Cardinality({t \in DOMAIN threads : Th(t).kind = "reaper"}) = 1
    /\ containers = {}
    /\ \A t \in DOMAIN threads : ~Live(t)

----------------------------------------------------------------------------
(* Task sessions: the end of the multi-step path *)

NoChanges == "All steps completed without code changes."

\* C21: after the last step of a multi-step session the worker pushes the
\* branch and creates the pull request exactly when a checkpoint found
\* changes, and the session is then stored with a result of type pr for a
\* pushed branch; else nothing is pushed, no pull request is created and the
\* session is stored complete with the text result "All steps completed
\* without code changes."; when the worker has returned from a complete
\* session its container runs no more.
C21_MultiStepFinalisation ==
    /\ [](\A t \in DOMAIN threads :
            (Th(t).kind = "task" /\ Th(t).pc \in {"m_emit_pushing", "m_push", "m_emit_creating",
                                                  "m_create_pr", "m_store_complete", "m_emit_done"})
            => Loc(t).changed /\ Loc(t).i = Loc(t).n)
    /\ [](\A t \in DOMAIN threads :
            (Th(t).kind = "task" /\ Th(t).pc \in {"m_store_text", "m_emit_done_text"})
            => ~Loc(t).changed /\ Loc(t).i = Loc(t).n /\ pushed = {} /\ prs = <<>>)
    /\ [][\A t \in DOMAIN threads :
            (At(t, "task", "m_create_pr") /\ prs' # prs) => Th(t).sess.branch \in pushed]_vars
    /\ [](\A s \in TaskSessions : sessions[s].result.type = ResultPR =>
            /\ sessions[s].status = StatusComplete
            /\ sessions[s].branch \in pushed
            /\ \E n \in 1..Len(prs) :
                  /\ prs[n] = sessions[s].branch
                  /\ sessions[s].result.pr_url = PRUrl(n) /\ sessions[s].result.pr_number = n)
    /\ [](\A s \in TaskSessions : sessions[s].result.type = ResultText =>
            /\ sessions[s].status = StatusComplete
            /\ sessions[s].result.content = NoChanges
            /\ pushed = {} /\ prs = <<>>)
    /\ [](\A s \in TaskSessions :
            (sessions[s].status = StatusComplete /\ \A t \in DOMAIN threads : ~Live(t))
            => sessions[s].container_id # "" /\ sessions[s].container_id \notin containers)

\* both steps completed, no checkpoint found changes: the session is complete
\* with the text result, nothing was pushed and the container is stopped
C21_Witness ==
    \E s \in TaskSessions :
        /\ sessions[s].status = StatusComplete
        /\ sessions[s].result.type = ResultText
        /\ sessions[s].result.content = NoChanges
        /\ Cardinality({i \in 1..Len(events) : events[i].type = "progress"
                                                /\ events[i].data = "completed"}) = MaxSubTasks
        /\ pushed = {} /\ prs = <<>> /\ containers = {}
        /\ \A t \in DOMAIN threads : ~Live(t)

-----------------------------------------------------------------------------
(* Engine.Start and Engine.Stop: the WaitGroup over the background workers *)

\* The goroutines behind wg.Add(1): initChatSession, runChatMessage and
\* runSession workers and the reaper's loop (whose ticks run inside it).
\* Add is called before `go` and Done is deferred, so the WaitGroup's
\* counter is the number of them that have not returned.
Workers == {t \in DOMAIN threads :
               Th(t).kind \in {"init", "chat", "task", "reapIdleChatSessions", "reaper"} /\ Live(t)}

\* Engine.Start: the context, and the reaper's goroutine at its select; the
\* goroutine returns from the select once Stop has cancelled the context.
EngineStart ==
    \/ /\ \A t \in DOMAIN threads : Th(t).kind # "reapIdleChatSessions"
       /\ (\A c \in DOMAIN threads : Th(c).kind # "Stop")
       /\ threads' = Append(threads, NewThread("reapIdleChatSessions", "", "select"))
       /\ UNCHANGED <<storeVars, busVars, containers, agentRuns, prs, calls, harnessVars, taskVars>>
    \/ \E t \in DOMAIN threads :
          /\ At(t, "reapIdleChatSessions", "select")
          /\ \E c \in DOMAIN threads : Th(c).kind = "Stop"
          /\ \A r \in DOMAIN threads : Th(r).kind = "reaper" => ~Live(r)
          /\ threads' = [threads EXCEPT ![t] = Done(@, "")]
          /\ UNCHANGED <<storeVars, busVars, containers, agentRuns, prs, calls, harnessVars, taskVars>>

\* a Stop whose wg.Wait() returns at once, whatever is running
EngineStopNoWait ==
    \/ /\ calls < MaxCalls
       /\ (\A c \in DOMAIN threads : Th(c).kind # "Stop")
       /\ calls' = calls + 1
       /\ threads' = Append(threads, NewThread("Stop", "", "Wait"))
       /\ UNCHANGED <<storeVars, busVars, containers, agentRuns, prs, harnessVars, taskVars>>
    \/ \E t \in DOMAIN threads :
          /\ At(t, "Stop", "Wait")
          /\ threads' = [threads EXCEPT ![t] = Done(@, "")]
          /\ UNCHANGED <<storeVars, busVars, containers, agentRuns, prs, calls, harnessVars, taskVars>>

\* Engine.Stop: e.cancel(), then wg.Wait(), which returns when the counter
\* is zero.
EngineStop ==
    \/ /\ calls < MaxCalls
       /\ (\A c \in DOMAIN threads : Th(c).kind # "Stop")
       /\ calls' = calls + 1
       /\ threads' = Append(threads, NewThread("Stop", "", "Wait"))
       /\ UNCHANGED <<storeVars, busVars, containers, agentRuns, prs, harnessVars, taskVars>>
    \/ \E t \in DOMAIN threads :
          /\ At(t, "Stop", "Wait")
          /\ Workers = {}
          /\ threads' = [threads EXCEPT ![t] = Done(@, "")]
          /\ UNCHANGED <<storeVars, busVars, containers, agentRuns, prs, calls, harnessVars, taskVars>>

\* The Engine from Start on: the calls come at any time, before Stop, while
\* it waits and after it returned (the Engine refuses none), and the ticker
\* fires inside the reaper's goroutine.  A task session's worker is followed
\* up to the start of its container: it returns when the start fails, and is
\* left at the container's logs when it succeeds.
StopNext ==
    \/ EngineStart
    \/ EngineStop
    \/ /\ \E t \in DOMAIN threads : Th(t).kind = "reapIdleChatSessions"
       /\ \/ \E s \in ChatSessions : CreateChatSession(s)
          \/ \E s \in ChatSessions, content \in Contents : SendChatMessage(s, content)
          \/ \E s \in TaskSessions : CreateAndRunSession(s)
          \/ /\ \E t \in DOMAIN threads : At(t, "reapIdleChatSessions", "select")
             /\ ReaperTick
    \/ \E t \in DOMAIN threads :
          \/ EmitEventPublish(t)
          \/ FailSessionUpdate(t) \/ FailSessionEmit(t)
          \/ InitGetSession(t) \/ InitEmitStarting(t) \/ InitStart(t)
          \/ InitStoreContainer(t) \/ InitEmitSetup(t) \/ InitExecSetup(t)
          \/ InitSetupLine(t) \/ InitSetIdle(t) \/ InitEmitReady(t)
          \/ SendCountMessages(t) \/ SendAddMessage(t)
          \/ ChatGetSession(t) \/ ChatSetRunning(t) \/ ChatEmitRunning(t)
          \/ ChatExec(t) \/ ChatEmitExecError(t) \/ ChatSetIdleAfterError(t)
          \/ ChatOutputLine(t) \/ ChatStreamEnd(t) \/ ChatAddAssistant(t)
          \/ ChatSetIdle(t) \/ ChatEmitReady(t)
          \/ RunSessionStep(t) \/ SubPlan(t) \/ RoundStart(t)
          \/ ReaperStop(t) \/ ReaperUpdate(t) \/ ReaperEmit(t)

SpecStop == Init /\ [][StopNext]_vars

-----------------------------------------------------------------------------
(* Chat sessions: the calls that are refused *)

\* what SendChatMessage and CreatePRFromChat return when they refuse a call
ValidationErrors == {"not a chat session", "not idle", "no container", "message limit reached"}

-----------------------------------------------------------------------------
(* Failures of the runtime, the git provider and the Store *)

\* the failures CreatePRFromChat returns to its caller
PRFailures == {"commit/push failed", "failed to create PR"}

\* C24: when a runtime start, a git push or a PR creation fails while the
\* Engine works on a session, the session ends with status error and the
\* failure as its error string: at the step in which the Engine is done with
\* the failure (failSession's write, or the return of CreatePRFromChat with
\* a failed commit/push or a failed CreatePR) the row is in error with that
\* string.
C24_InfrastructureFailureFailsSession ==
    [][\A t \in DOMAIN threads :
          /\ (Th(t).pc = "fail" /\ threads'[t].pc = "fail_emit")
             => /\ sessions'[Th(t).sid].status = StatusError
                /\ sessions'[Th(t).sid].error = Th(t).err
          /\ (Th(t).kind = "pr" /\ Live(t) /\ threads'[t].ret \in PRFailures)
             => /\ sessions'[Th(t).sid].status = StatusError
                /\ sessions'[Th(t).sid].error = threads'[t].ret]_vars

-----------------------------------------------------------------------------
(* Task sessions: indexing, planning, verify and review that fail *)

\* the event a step has added to the Store, if it added one
Emitted(data) ==
    /\ Len(events') = Len(events) + 1
    /\ events'[Len(events')].data = data

\* C25: a failure of the repository indexing or of the Plan, Verify or
\* Review call never fails the session.  Whatever these four steps return
\* the worker goes on and the session row is left alone; after a failed
\* indexing it goes to the decomposition, after a failed planning to the
\* sandbox round without a plan (the direct prompt), after a failed verify
\* analysis past verify with no revision, after a failed review to the
\* finalisation with no further review.
C25_PipelineFailureIsNotFatal ==
    [][\A t \in DOMAIN threads :
          /\ At(t, "task", "index")
             => threads'[t].pc = "emit_analyzing" /\ sessions' = sessions
          /\ At(t, "task", "plan")
             => /\ threads'[t].pc = "emit_starting" /\ sessions' = sessions
                /\ Emitted("Planning failed, using direct prompt") => ~threads'[t].loc.plan
          /\ At(t, "task", "verify")
             => /\ threads'[t].pc \in {ReviewGate(Th(t)), "emit_verify_failed"}
                /\ sessions' = sessions
                /\ Emitted("Verify analysis failed, proceeding")
                   => threads'[t].pc = ReviewGate(Th(t)) /\ threads'[t].loc.round = Loc(t).round
          /\ At(t, "task", "review")
             => /\ threads'[t].pc \in {"finalize", "not_approved"} /\ sessions' = sessions
                /\ Emitted("Review failed, proceeding") => threads'[t].pc = "finalize"]_vars

\* a session is complete after its indexing, its planning and its verify
\* analysis failed
C25_Witness ==
    /\ sessions["s1"].status = StatusComplete
    /\ \A data \in {"Repo indexing failed, proceeding without context",
                    "Planning failed, using direct prompt",
                    "Verify analysis failed, proceeding"} :
          \E i \in 1..Len(events) : events[i].session_id = "s1" /\ events[i].data = data

-----------------------------------------------------------------------------
(* Sessions in error *)

\* C26: whenever a session's status becomes error, an event of type error
\* is emitted for it and its error string is not empty: once every worker
\* and call has returned, a session in error has a non-empty error string
\* and an error event in the Store.
C26_ErrorStatusHasErrorEvent ==
    \A s \in ChatSessions :
        (sessions[s].status = StatusError /\ \A t \in DOMAIN threads : ~Live(t))
        => /\ sessions[s].error # ""
           /\ \E i \in 1..Len(events) :
                 events[i].session_id = s /\ events[i].type = "error"

\* C27: a session's container_id is non-empty only while the container it
\* names exists: once the workers and calls have returned (so after the
\* Engine stopped the container at the finalisation, a failure or the idle
\* reaping), a stored container_id names a container of the runtime.
C27_ContainerIDOnlyWhileContainerExists ==
    (\A t \in DOMAIN threads : ~Live(t))
    => \A s \in ChatSessions :
          sessions[s].container_id # "" => sessions[s].container_id \in containers

-----------------------------------------------------------------------------
(* Server.handleSessionEvents: the history and the subscription *)

\* C28: the SSE events handler subscribes to the session's event bus before
\* it reads the session's historical events from the Store: a handler that
\* has read the history has subscribed.
C28_SubscribesBeforeHistory ==
    \A t \in DOMAIN threads : Th(t).kind = "sse" => Th(t).ret = "subscribed"

-----------------------------------------------------------------------------
(* Task sessions and the clock *)

\* the session timeout of the design notes, in minutes
SessionTimeout == 30

\* the age up to which a run follows a worker
MaxAge == 40

\* Time passes while a worker waits for its sandbox: logStream.Scan and
\* sandbox.Wait return when the container writes a line or exits.  They are
\* called with the worker's context, which has no deadline (the Engine's is
\* the one Start made with WithCancel, the Server's is context.Background),
\* so nothing ends the wait when time passes.
ClockTick(t) ==
    LET TickMinutes == 20
    IN /\ At(t, "task", "scan")
       /\ Th(t).age < MaxAge
       /\ threads' = [threads EXCEPT ![t].age = @ + TickMinutes]
       /\ UNCHANGED <<storeVars, busVars, containers, agentRuns, prs, calls, harnessVars, taskVars>>

TimeoutNext ==
    \/ \E s \in TaskSessions : CreateAndRunSession(s)
    \/ \E t \in DOMAIN threads :
          \/ TaskStep(t)
          \/ ClockTick(t)
          \/ FailSessionUpdate(t) \/ FailSessionEmit(t)
          \/ EmitEventPublish(t)

SpecTimeout == Init /\ [][TimeoutNext]_vars

\* C29: session execution is bounded by a 30-minute timeout: a task
\* session's worker that is still working on it started no more than
\* SessionTimeout minutes ago.
C29_WorkerBoundedByTimeout ==
    \A t \in DOMAIN threads :
        (Th(t).kind = "task" /\ Live(t)) => Th(t).age <= SessionTimeout

-----------------------------------------------------------------------------
(* memory.Store: Add and Query *)

\* the repos of the summaries and of the queries
MemoryRepos == {"org/api", "org/web"}

\* what the Embedder returns for a text: vectors of two non-negative
\* components, the zero vector among them
Embeddings == {<<0, 0>>, <<1, 0>>, <<0, 1>>, <<1, 1>>}

\* summaries a run adds
MaxSummaries == 3

\* the largest topK a run asks for
MaxTopK == 2

\* Store.Add: the embedding of the summary's text, and the summary appended;
\* nothing is stored when the Embedder fails.
Add(sessionID, repo, embedded) ==
    /\ Len(summaries) < MaxSummaries
    /\ summaries' = IF embedded.err THEN summaries
                    ELSE Append(summaries, [session_id |-> sessionID, repo |-> repo,
                                            embedding |-> embedded.vec])
    /\ UNCHANGED <<storeVars, busVars, storeHarness, busHarness, failHarness, decomposed,
                   evaluated, recalled, engineVars, taskVars>>

\* a Query without the test of sum.Repo
QueryAnyRepo(repo, queryEmbedding, topK) ==
    LET cosineSimilarity(a, b) ==
            LET dot   == a[1] * b[1] + a[2] * b[2]
                normA == a[1] * a[1] + a[2] * a[2]
                normB == b[1] * b[1] + b[2] * b[2]
            IN IF normA = 0 \/ normB = 0 THEN 0 ELSE (100 * dot * dot) \div (normA * normB)
        same == 1..Len(summaries)
        n == Cardinality(same)
        sim(i) == cosineSimilarity(queryEmbedding, summaries[i].embedding)
        sorted == {f \in [1..n -> same] :
                      /\ \A j, k \in 1..n : j # k => f[j] # f[k]
                      /\ \A j, k \in 1..n : j < k => sim(f[j]) >= sim(f[k])}
        kept == IF n > topK THEN topK ELSE n
    IN {[j \in 1..kept |-> [summary |-> summaries[f[j]], similarity |-> sim(f[j])]] :
           f \in sorted}

\* Store.Query after the query's embedding: the summaries of the repo with
\* their cosine similarity to the query, sorted by similarity descending and
\* cut to topK.  sort.Slice is not stable, so summaries of equal similarity
\* come in any order: the operator gives every result Query may return.
\* cosineSimilarity is kept as 100 * cos^2, which orders the non-negative
\* embeddings of a run as the cosine does; it is 0 for a zero vector.
Query(repo, queryEmbedding, topK) ==
    LET cosineSimilarity(a, b) ==
            LET dot   == a[1] * b[1] + a[2] * b[2]
                normA == a[1] * a[1] + a[2] * a[2]
                normB == b[1] * b[1] + b[2] * b[2]
            IN IF normA = 0 \/ normB = 0 THEN 0 ELSE (100 * dot * dot) \div (normA * normB)
        same == {i \in 1..Len(summaries) : summaries[i].repo = repo}
        n == Cardinality(same)
        sim(i) == cosineSimilarity(queryEmbedding, summaries[i].embedding)
        sorted == {f \in [1..n -> same] :
                      /\ \A j, k \in 1..n : j # k => f[j] # f[k]
                      /\ \A j, k \in 1..n : j < k => sim(f[j]) >= sim(f[k])}
        kept == IF n > topK THEN topK ELSE n
    IN {[j \in 1..kept |-> [summary |-> summaries[f[j]], similarity |-> sim(f[j])]] :
           f \in sorted}

\* a call of Query: the Embedder fails, or one of the results Query may
\* return
MemoryQuery(repo, embedded, topK) ==
    /\ \E matches \in (IF embedded.err THEN {<<>>} ELSE Query(repo, embedded.vec, topK)) :
          recalled' = [repo |-> repo, topK |-> topK, err |-> embedded.err,
                       matches |-> matches]
    /\ UNCHANGED <<storeVars, busVars, storeHarness, busHarness, failHarness, decomposed,
                   evaluated, summaries, engineVars, taskVars>>

MemoryNext ==
    LET Embedded == [err : {FALSE}, vec : Embeddings] \cup {[err |-> TRUE, vec |-> <<0, 0>>]}
    IN \/ \E repo \in MemoryRepos, e \in Embedded : Add("s1", repo, e)
       \/ \E repo \in MemoryRepos, e \in Embedded, topK \in 0..MaxTopK :
             MemoryQuery(repo, e, topK)

SpecMemory == Init /\ [][MemoryNext]_vars

\* C30: Query(repo, prompt, topK) never returns a summary that was added
\* under a different repo, whatever summaries have been added and however
\* similar they are to the query: every match of a Query is a stored summary
\* of the repo that was asked for.
C30_QueryStaysInRepo ==
    \A j \in 1..Len(recalled.matches) :
        /\ recalled.matches[j].summary.repo = recalled.repo
        /\ \E i \in 1..Len(summaries) : summaries[i] = recalled.matches[j].summary

\* a Query returned a summary of its repo with a similarity below that of a
\* summary stored under the other repo, and had room for more
C30_Witness ==
    /\ Len(recalled.matches) = 1
    /\ recalled.topK = MaxTopK
    /\ \E i \in 1..Len(summaries) :
          /\ summaries[i].repo # recalled.repo
          /\ summaries[i].embedding = <<1, 1>>
          /\ recalled.matches[1].similarity < 100

----------------------------------------------------------------------------
(* Multi-step sessions: pre-validation, self-correction and checkpoints *)

\* the step of worker t on which runVerify gives the outcome of the re-check
\* that follows the self-correction
RecheckStep(t) ==
    /\ At(t, "task", "m_verify")
    /\ Loc(t).phase = "recheck"
    /\ threads'[t] # threads[t]

\* C31: when the re-check after the self-correction still fails and a
\* checkpoint exists (lastCheckpointHash is not empty), the working copy is
\* reset to it and the step before is marked failed; in every other case
\* (the re-check passes, or it fails and there is no checkpoint) no step is
\* marked failed, nothing is reset, and the worker goes on to checkpoint the
\* correction, whose hash, unless git fails, becomes lastCheckpointHash.
C31_RollbackOnlyWithCheckpoint ==
    [][\A t \in DOMAIN threads :
          LET th == Th(t)
              nx == threads'[t]
          IN  /\ RecheckStep(t) =>
                    IF Emitted("Tests or linting failed") /\ th.loc.hash # 0
                    THEN /\ nx.loc.resets = th.loc.resets + 1
                         /\ nx.loc.statuses[th.loc.i - 1] = "failed"
                    ELSE /\ nx.loc.resets = th.loc.resets
                         /\ nx.loc.statuses = th.loc.statuses
                         /\ nx.pc = "m_emit_corrected"
              /\ (At(t, "task", "m_fix_checkpoint") /\ nx.pc # th.pc) =>
                    \/ nx.loc.hash = nx.loc.commits + 1
                    \/ nx.loc.hash = th.loc.hash /\ nx.loc.commits = th.loc.commits
       ]_vars

\* worker t is in step i after the step's agent run has succeeded: in the
\* post-verify, in the revision that follows a failed post-verify, or at the
\* checkpoint
AfterRun(t) ==
    /\ Th(t).kind = "task"
    /\ Loc(t).phase \in {"post", "revise"}
    /\ Th(t).pc \in {"m_emit_verifying", "m_verify", "m_emit_verify_failed",
                     "m_agent_exec", "m_agent_scan", "m_checkpoint"}

\* C32: once the agent run of a step has succeeded the step is never marked
\* failed: it stays running through the post-verify and the one revision,
\* whatever the verdict and whatever the revision returns, a failed
\* post-verify leads to the revision and the revision to the checkpoint,
\* and the checkpoint marks the step completed.
C32_PostVerifyFailureNotFatal ==
    [][\A t \in DOMAIN threads :
          LET th == Th(t)
              nx == threads'[t]
          IN  (AfterRun(t) /\ nx # th) =>
                 /\ nx.loc.statuses[th.loc.i] =
                       IF At(t, "task", "m_checkpoint") THEN "completed" ELSE "running"
                 /\ At(t, "task", "m_verify") =>
                       nx.pc = IF Emitted("Tests or linting failed")
                               THEN "m_emit_verify_failed" ELSE "m_checkpoint"
                 /\ th.loc.phase = "revise" =>
                       nx.pc \in {"m_agent_exec", "m_agent_scan", "m_checkpoint"}
                                 \cup IF th.pc = "m_checkpoint" THEN {"m_emit_step", "m_emit_pushing", "m_store_text"} ELSE {}
       ]_vars

\* the second step of a session was marked completed after its post-verify
\* had failed and the revision had been run
C32_Witness ==
    \E t \in DOMAIN threads :
        /\ Th(t).kind = "task"
        /\ Loc(t).phase = "revise"
        /\ Loc(t).n = 2
        /\ Loc(t).statuses[2] = "completed"
        /\ \E e \in DOMAIN events :
              events[e].session_id = Th(t).sid /\ events[e].data = "## Verify Failed"

\* C34: the steps of a multi-step session run one after the other.  In the
\* worker's statuses at most one sub-task is running, and it is the step i
\* the loop is in; every step before it has been marked completed or failed
\* and every step after it is still pending.
C34_StepsStrictlySequential ==
    \A t \in DOMAIN threads :
        LET st == Loc(t).statuses
        IN  Th(t).kind = "task" =>
               /\ Cardinality({j \in DOMAIN st : st[j] = "running"}) <= 1
               /\ \A j \in DOMAIN st :
                     /\ st[j] = "running" => j = Loc(t).i
                     /\ j < Loc(t).i => st[j] \in {"completed", "failed"}
                     /\ j > Loc(t).i => st[j] = "pending"

\* the second step is running after the first was marked failed
C34_Witness ==
    \E t \in DOMAIN threads :
        /\ Th(t).kind = "task"
        /\ Loc(t).i = 2
        /\ Loc(t).statuses = <<"failed", "running">>

\* C39: a multi-step session that ends with the text result "All steps
\* completed without code changes." has created no checkpoint commit: when
\* the worker stores that result and emits its done event, neither a step
\* checkpoint nor a self-correction checkpoint has committed anything.
C39_TextResultMeansNoCommit ==
    \A t \in DOMAIN threads :
        (/\ Th(t).kind = "task"
         /\ Th(t).pc \in {"m_store_text", "m_emit_done_text"}) => Loc(t).commits = 0

----------------------------------------------------------------------------
(* Chat sessions: the worker of an accepted message *)

\* C33: the worker of every accepted SendChatMessage sets the session to
\* running, appends an assistant message (the agent's output lines joined,
\* or "(no output)"), and only then sets the session back to idle: the step
\* on which a chat worker writes status idle is taken by a worker that wrote
\* running before and has stored its assistant message.
C33_AssistantMessageBeforeIdle ==
    [][\A t \in DOMAIN threads :
          (/\ Th(t).kind = "chat"
           /\ threads'[t] # threads[t]
           /\ sessions' # sessions
           /\ sessions'[Th(t).sid].status = StatusIdle)
          => /\ Th(t).sess.status = StatusRunning
             /\ Th(t).pc = "set_idle"
             /\ \E m \in DOMAIN messages :
                   /\ messages[m].session_id = Th(t).sid
                   /\ messages[m].role = "assistant"
                   /\ messages[m].content = IF Th(t).out = 0 THEN "(no output)" ELSE "agent line"
       ]_vars

----------------------------------------------------------------------------
(* Task sessions: the containers of a session whose worker has returned *)

\* C35: every container the Engine has started for a task session is
\* stopped by the time the session's worker returns, whether the session
\* completed or failed: once the worker of the one task session has returned
\* (and published its last event) no container exists.
C35_ContainersStoppedWhenWorkerDone ==
    (/\ \E t \in DOMAIN threads : Th(t).kind = "task"
     /\ \A t \in DOMAIN threads : Th(t).kind = "task" => ~Live(t))
    => containers = {}

----------------------------------------------------------------------------
(* The idle reaper and the messages a session accepts meanwhile *)

\* C36: the idle reaper acts only on sessions that are still idle.  On the
\* step on which it stops the container of a session, and on the step on
\* which it stores status error for it, the session's row in the Store is
\* not running: no message accepted after the reaper listed the sessions
\* has started an agent run in it.
C36_ReaperSparesRunningSessions ==
    [][\A t \in DOMAIN threads :
          (/\ At(t, "reaper", "next") \/ At(t, "reaper", "update")
           /\ threads'[t] # threads[t])
          => sessions[threads'[t].sid].status # StatusRunning
       ]_vars

----------------------------------------------------------------------------
(* Server.handleSessionEvents: what the client of an event stream receives *)

\* C37: the client of a session's event stream receives every event of the
\* session exactly once.  No id is written to a client twice; and once every
\* stored event of the session has been published and the handler's channel
\* is empty, the ids written to the client are those of all the session's
\* events, also of the events emitted between the replay of the history and
\* the subscription.
C37_ClientReceivesEveryEventOnce ==
    \A t \in DOMAIN threads :
        (Th(t).kind = "sse" /\ Th(t).pc \in {"subscribe", "forward"}) =>
           /\ \A i, j \in DOMAIN Th(t).sent : Th(t).sent[i] = Th(t).sent[j] => i = j
           /\ (/\ Th(t).pc = "forward"
               /\ chans[Th(t).ch].buf = <<>>
               /\ \A u \in DOMAIN threads : Th(u).pub = NoEvent)
              => \A e \in DOMAIN events :
                    events[e].session_id = Th(t).sid
                       => \E i \in DOMAIN Th(t).sent : Th(t).sent[i] = events[e].id

----------------------------------------------------------------------------
(* Task sessions: the containers of the rounds of one session *)

\* C38: at most one container exists for a session at any time, and a
\* round's container is started only after the container of the round
\* before has been stopped and removed: in the runs of the one task session
\* the runtime never holds two containers, and on every step on which the
\* worker calls sandbox.Start (whether the call succeeds or not) the
\* runtime holds no container.
C38_OneContainerPerSession ==
    /\ [](Cardinality(containers) <= 1)
    /\ [][\A t \in DOMAIN threads :
             (At(t, "task", "start") /\ threads'[t] # threads[t]) => containers = {}
         ]_vars

----------------------------------------------------------------------------
(* The Bus: closed channels *)

\* C40: under every interleaving of Subscribe, Publish and Unsubscribe
\* calls, a repeated Unsubscribe of the same channel included, the Bus never
\* sends on a closed channel and never closes a channel twice: no channel
\* has been closed more than once, and no step adds an event to the buffer
\* of a channel that is closed.
C40_NoSendOnClosedNoDoubleClose ==
    /\ [](\A c \in DOMAIN chans : chans[c].closes <= 1)
    /\ [][\A c \in DOMAIN chans :
             chans[c].closed => Len(chans'[c].buf) <= Len(chans[c].buf)
         ]_vars

\* events were published to a session after one of its two channels had
\* been unsubscribed: the closed channel is registered nowhere and holds
\* nothing, the other channel holds the events
C40_Witness ==
    \E s \in Sessions, c, d \in DOMAIN chans :
        /\ chans[c].closed /\ chans[c].closes = 1 /\ chans[c].buf = <<>>
        /\ \A q \in Sessions : c \notin Range(subs[q])
        /\ d \in Range(subs[s]) /\ chans[d].buf # <<>>
        /\ \A q \in Sessions : q # s => subs[q] = <<>>
        /\ Len(chans) = MaxChans

====
